---- MODULE Spec2Model ----
(***************************************************************************)
(* A model of the orchestration core of gig.bot: the deduplicating store   *)
(* (core/storage.py), the lifecycle wrapper (core/scraper_base.py), the    *)
(* resilient fetcher (core/http_utils.py), the robots.txt cache            *)
(* (core/robots.py), the notification dispatcher (core/notifications.py),  *)
(* the health monitor (core/storage.py, main.py), the throttler and the    *)
(* identity rotation (core/throttler.py, core/proxies.py) and the          *)
(* scheduler with its scraper jobs (main.py, scrapers/).                   *)
(*                                                                         *)
(* Every coroutine is cut at its suspension points (await); the code       *)
(* between two suspension points runs on the single event-loop thread and  *)
(* is one action.                                                          *)
(***************************************************************************)
EXTENDS Integers, Sequences, FiniteSets, TLC

VARIABLES
    now,            \* wall clock, datetime.now(timezone.utc), in abstract ticks
    channels,       \* enabled notification channels (config.notification_settings)
    gigs,           \* rows of table gigs
    notifications,  \* calls of send_notification, in call order
    saves,          \* the save_gig calls: position and arguments of each
    health,         \* rows of table scraper_health
    perf,           \* rows of table scraper_performance
    runs,           \* the executions of wrapped jobs the scheduler has fired
    dbFault,        \* how the ledger database fails in this process, if it does
    retry_attempts, \* config.retry_attempts, read when http_utils is imported
    fetch,          \* the call of fetch_url_with_retries in progress, if any
    robots_parsers, \* _robots_parsers: the robots.txt cache, by domain
    robots,         \* the is_url_allowed call in progress and the calls so far
    monitor,        \* the check_scraper_health invocation in progress or ended
    dispatches,     \* the send_notification calls and their channel tasks
    enabled,        \* config.enabled_scrapers
    scheduler,      \* state of the AsyncIOScheduler of main
    execs,          \* the executions of scheduled scraper functions
    delay_range,    \* config.delay_range: <<min, max>> seconds
    throttle,       \* the last call of the throttler: its mode and duration
    use_proxies,    \* config.use_proxies
    proxy_list,     \* config.get("proxy_list", [])
    proxy           \* the last call of get_proxy and what it returned

vars ==
    <<now, channels, gigs, notifications, saves, health, perf, runs, dbFault,
      retry_attempts, fetch, robots_parsers, robots, monitor, dispatches,
      enabled, scheduler, execs, delay_range, throttle, use_proxies,
      proxy_list, proxy>>

\* The throttler and the identity rotation, with their settings.
leafVars == <<delay_range, throttle, use_proxies, proxy_list, proxy>>

\* The state of the dispatcher's calls and of the scheduler with its jobs.
auxVars == <<dispatches, enabled, scheduler, execs, leafVars>>
fetchVars == <<retry_attempts, fetch, robots_parsers, robots, monitor, auxVars>>
storeVars == <<gigs, notifications, saves>>
ledgerVars == <<health, perf, runs, dbFault>>

\* Python's None / SQL NULL.
NULL == "None"

(***************************************************************************)
(* Bounds of the model.                                                    *)
(***************************************************************************)
MaxSaves == 2       \* save_gig calls in one behaviour
MaxRuns == 2        \* job executions in one behaviour
MaxTime == 3        \* the clock stops being advanced by Tick at MaxTime
MaxRetryAttempts == 6   \* config.retry_attempts ranges over 1..MaxRetryAttempts
MaxRobotsCalls == 3     \* is_url_allowed calls in one behaviour
MaxChecks == 2          \* check_scraper_health invocations in one behaviour
MaxDispatches == 2      \* send_notification calls followed task by task
MaxExecs == 2           \* executions the scheduler fires in one behaviour

(***************************************************************************)
(* Notification dispatcher: core/notifications.py                          *)
(***************************************************************************)
Channels == {"email", "telegram"}

\* send_email_notification catches (smtplib.SMTPException, OSError) only; any
\* other exception of the channel leaves it, and asyncio.gather hands it to
\* the caller of send_notification.  send_telegram_notification catches
\* Exception.  So send_notification can raise only with the email channel on.
send_notification_may_raise(chs) == "email" \in chs

\* The call send_notification(source, title, link, snippet), as recorded.
NotificationCall(source, title, link, snippet) ==
    [source |-> source, title |-> title, link |-> link, snippet |-> snippet]

\* The dispatcher followed task by task.  A channel task is "none" (not
\* created), "created" (scheduled by asyncio.create_task), "sending"
\* (suspended in its await), or ended: "sent", "skipped" (settings
\* incomplete: warning and return), "caught" (failure logged inside the
\* channel), "raised" (the coroutine ended with an exception), "cancelled".
DispatchIds == 1..MaxDispatches
TaskEnded == {"sent", "skipped", "caught", "raised", "cancelled"}

\* late: the channels whose task ended after send_notification was left.
IdleDispatch ==
    [pc |-> "idle", tasks |-> [ch \in Channels |-> "none"], late |-> {}]

\* A channel task from its creation to its await.  Email: incomplete SMTP
\* settings return; building the message and the TLS context happens before
\* the try, so an exception there leaves the coroutine; otherwise it awaits
\* asyncio.to_thread.  Telegram: everything after the settings test is in
\* try / except Exception.
ChannelStartOutcomes(ch) ==
    IF ch = "email" THEN {"skipped", "raised", "sending"}
    ELSE {"skipped", "caught", "sending"}

\* A channel task from its await to its end.  Email catches
\* (smtplib.SMTPException, OSError); any other exception of _send_email
\* leaves the coroutine.  Telegram catches Exception.
ChannelFinishOutcomes(ch) ==
    IF ch = "email" THEN {"sent", "caught", "raised"}
    ELSE {"sent", "caught"}

\* asyncio.gather without return_exceptions: the first exception of a child
\* is handed to the awaiter; the other children are left running.
GatherLeavesChildren(tasks) == tasks

\* A plausible slip: children cancelled on the first exception, as
\* asyncio.TaskGroup does.
GatherCancelsChildren(tasks) ==
    [ch \in Channels |-> IF tasks[ch] \in {"created", "sending"}
                         THEN "cancelled" ELSE tasks[ch]]

GatherOnChildException(tasks) == GatherLeavesChildren(tasks)

\* asyncio.create_task for each channel whose enable_..._notifications
\* setting is on; the other task variables stay None.
TasksOfEnabled(chs) ==
    [ch \in Channels |-> IF ch \in chs THEN "created" ELSE "none"]

\* A plausible slip: a task for every channel, whatever the settings.
TasksOfAll(chs) == [ch \in Channels |-> "created"]

CreateTasks(chs) == TasksOfEnabled(chs)

\* send_notification, to its await: one task per enabled channel, then
\* gather; with no task it returns without suspending.
send_notification(d, source, title, link, snippet) ==
    /\ dispatches[d].pc = "idle"
    /\ \A e \in DispatchIds : e < d => dispatches[e].pc # "idle"
    /\ LET tasks == CreateTasks(channels) IN
        dispatches' = [dispatches EXCEPT ![d] =
            [pc |-> IF \A ch \in Channels : tasks[ch] = "none"
                    THEN "returned" ELSE "gather",
             tasks |-> tasks,
             late |-> {}]]
    /\ notifications' = Append(notifications,
                               NotificationCall(source, title, link, snippet))

\* The task of channel ch moves to state: the event loop runs it.
ChannelTaskTo(d, ch, state) ==
    LET tasks == [dispatches[d].tasks EXCEPT ![ch] = state] IN
    dispatches' = [dispatches EXCEPT
        ![d].tasks = IF state = "raised" THEN GatherOnChildException(tasks)
                     ELSE tasks,
        ![d].late = IF state \in TaskEnded /\ dispatches[d].pc # "gather"
                    THEN @ \cup {ch} ELSE @]

send_channel_notification_start(d, ch, outcome) ==
    /\ dispatches[d].tasks[ch] = "created"
    /\ outcome \in ChannelStartOutcomes(ch)
    /\ ChannelTaskTo(d, ch, outcome)

send_channel_notification_finish(d, ch, outcome) ==
    /\ dispatches[d].tasks[ch] = "sending"
    /\ outcome \in ChannelFinishOutcomes(ch)
    /\ ChannelTaskTo(d, ch, outcome)

\* The await of gather ends: with the exception of a child as soon as one
\* has raised, with the results once every child has ended.
send_notification_resume(d) ==
    /\ dispatches[d].pc = "gather"
    /\ LET tasks == dispatches[d].tasks IN
        /\ \/ \E ch \in Channels : tasks[ch] = "raised"
           \/ \A ch \in Channels : tasks[ch] \in TaskEnded \cup {"none"}
        /\ dispatches' = [dispatches EXCEPT ![d].pc =
                IF \E ch \in Channels : tasks[ch] = "raised"
                THEN "raised" ELSE "returned"]

InitDispatches == dispatches = [d \in DispatchIds |-> IdleDispatch]

(***************************************************************************)
(* Deduplicating store: core/storage.py, table gigs and save_gig           *)
(***************************************************************************)
Sources == {"Reddit", "Jiji"}
Links == {"http://x/1", "http://x/2"}

\* The (source, link) keys the calls draw from: one link under two sources,
\* one source with two links.
Pairs == { <<"Reddit", "http://x/1">>, <<"Jiji", "http://x/1">>,
           <<"Reddit", "http://x/2">> }

\* The fields of a call besides the key: two versions of the same posting.
Contents ==
    { [title |-> "Hiring dev", snippet |-> "snip", timestamp |-> NULL],
      [title |-> "Hiring dev (edited)", snippet |-> "snip 2",
       timestamp |-> "2023-01-01T12:00:00"] }

SaveIds == 1..MaxSaves

IdleSave ==
    [pc |-> "idle", source |-> NULL, title |-> NULL, link |-> NULL,
     snippet |-> NULL, timestamp |-> NULL, db_outcome |-> NULL, after |-> {}]

Finished(c) == saves[c].pc \in {"returned", "raised"}

\* A plausible slip: a table declared with UNIQUE(link).
UniqueOnLinkAlone(table, source, link) == \E r \in table : r.link = link

\* UNIQUE(source, link) of table gigs.
UniqueViolation(table, source, link) ==
    \E r \in table : r.source = source /\ r.link = link

\* id INTEGER PRIMARY KEY AUTOINCREMENT: rows are never deleted.
GigRow(table, s) ==
    [id |-> Cardinality(table) + 1, source |-> s.source, title |-> s.title,
     link |-> s.link, snippet |-> s.snippet, timestamp |-> s.timestamp]

\* _sync_save_gig_db_ops: INSERT and commit in one SQLite transaction.
\* Result <<table', outcome>>.  fault: the database fails for a reason other
\* than the uniqueness constraint (the except Exception branch).
InsertKeepingFirst(table, s, fault) ==
    IF fault THEN <<table, "error">>
    ELSE IF UniqueViolation(table, s.source, s.link) THEN <<table, "duplicate">>
    ELSE <<table \cup {GigRow(table, s)}, "inserted">>

\* A plausible slip: the table without its UNIQUE(source, link) constraint.
InsertWithoutUnique(table, s, fault) ==
    IF fault THEN <<table, "error">>
    ELSE <<table \cup {GigRow(table, s)}, "inserted">>

\* A plausible slip: INSERT OR REPLACE, which rewrites the stored row.
InsertOrReplace(table, s, fault) ==
    IF fault THEN <<table, "error">>
    ELSE IF UniqueViolation(table, s.source, s.link)
    THEN <<{r \in table : ~(r.source = s.source /\ r.link = s.link)}
                \cup {GigRow(table, s)}, "duplicate">>
    ELSE <<table \cup {GigRow(table, s)}, "inserted">>

sync_save_gig_db_ops(table, s, fault) == InsertKeepingFirst(table, s, fault)

\* The value _sync_save_gig_db_ops returns: True for an insert, False for a
\* duplicate and for any other failure.
db_success(outcome) == outcome = "inserted"

\* save_gig up to its first await: default the timestamp, hand the insert to
\* the executor.
save_gig(c, source, link, content) ==
    /\ saves[c].pc = "idle"
    /\ \A d \in SaveIds : d < c => saves[d].pc # "idle"   \* calls are numbered as made
    /\ saves' = [saves EXCEPT ![c] =
            [pc |-> "executor", source |-> source, title |-> content.title,
             link |-> link, snippet |-> content.snippet,
             timestamp |-> IF content.timestamp = NULL THEN ToString(now)
                           ELSE content.timestamp,
             db_outcome |-> NULL,
             after |-> {d \in SaveIds : Finished(d)}]]
    /\ UNCHANGED <<now, channels, gigs, notifications, health, perf, runs, dbFault, fetchVars>>

\* The executor thread runs _sync_save_gig_db_ops.
save_gig_executor(c, fault) ==
    /\ saves[c].pc = "executor"
    /\ LET r == sync_save_gig_db_ops(gigs, saves[c], fault) IN
        /\ gigs' = r[1]
        /\ saves' = [saves EXCEPT ![c].pc = "resume", ![c].db_outcome = r[2]]
    /\ UNCHANGED <<now, channels, notifications, health, perf, runs, dbFault, fetchVars>>

\* Whether save_gig calls send_notification after the insert.
NotifyOnSuccess(outcome) == db_success(outcome)

\* A plausible slip: notifying whatever the insert returned.
NotifyAlways(outcome) == TRUE

ShouldNotify(outcome) == NotifyOnSuccess(outcome)

\* save_gig resumes on the event loop: if db_success, call send_notification.
save_gig_resume(c) ==
    /\ saves[c].pc = "resume"
    /\ IF ShouldNotify(saves[c].db_outcome)
       THEN /\ notifications' = Append(notifications,
                    NotificationCall(saves[c].source, saves[c].title,
                                     saves[c].link, saves[c].snippet))
            /\ saves' = [saves EXCEPT ![c].pc = "notifying"]
       ELSE /\ saves' = [saves EXCEPT ![c].pc = "returned"]
            /\ UNCHANGED notifications
    /\ UNCHANGED <<now, channels, gigs, health, perf, runs, dbFault, fetchVars>>

\* What save_gig does to the table when the dispatch has ended: nothing, the
\* await is its last statement and the commit was made in the executor.
KeepCommit(table, s, raises) == table

\* A plausible slip: undoing the insert when the notification failed.
RollbackOnFailure(table, s, raises) ==
    IF raises THEN {r \in table : ~(r.source = s.source /\ r.link = s.link)}
    ELSE table

AfterDispatch(table, s, raises) == KeepCommit(table, s, raises)

\* await send_notification(...) ends: it returns, or its exception leaves
\* save_gig (there is no try around it).
save_gig_notified(c, raises) ==
    /\ saves[c].pc = "notifying"
    /\ raises => send_notification_may_raise(channels)
    /\ saves' = [saves EXCEPT ![c].pc = IF raises THEN "raised" ELSE "returned"]
    /\ gigs' = AfterDispatch(gigs, saves[c], raises)
    /\ UNCHANGED <<now, channels, notifications, health, perf, runs, dbFault, fetchVars>>

(***************************************************************************)
(* Lifecycle wrapper: core/scraper_base.py, with the two ledgers of        *)
(* core/storage.py it writes                                               *)
(***************************************************************************)
\* Jobs decorated with @scraper_lifecycle.
Jobs == {"discord", "craigslist"}

RunIds == 1..MaxRuns

\* class ScraperStatus(str, Enum)
ScraperStatus ==
    [SUCCESS |-> "success", FAILED |-> "failed",
     SKIPPED_ROBOTS |-> "skipped_robots", CIRCUIT_OPEN |-> "circuit_open"]

\* What a job body can return, as <<type, value>>.
Results ==
    { <<"NoneType", NULL>>, <<"ScraperStatus", "skipped_robots">>,
      <<"str", "skipped_robots">>, <<"ScraperStatus", "circuit_open">> }

\* str(e) of the exceptions a body raises.
Messages == {"", "Discord bot token not set."}

\* How the awaited body ends: it returns a value, raises an Exception, or is
\* left by a BaseException that is no Exception (asyncio.CancelledError,
\* KeyboardInterrupt, SystemExit).
BodyOutcomes ==
    [kind : {"return"}, value : Results, exc : {NULL}, msg : {NULL}]
    \cup [kind : {"raise"}, value : {NULL}, exc : {"Exception"}, msg : Messages]
    \cup [kind : {"raise"}, value : {NULL}, exc : {"BaseException"}, msg : {NULL}]

\* How a ledger write can fail: "execute" is raised by execute/commit and is
\* caught and logged inside the storage function; "connect" is raised by
\* sqlite3.connect, before the function's try (update_scraper_health then
\* raises into the wrapper's try).
Faults == {"ok", "execute", "connect"}

\* The failure modes of the ledger database: none, or one table's writes fail.
DbFaults ==
    {"ok", "health_execute", "health_connect", "perf_execute", "perf_connect"}

HealthFault(mode) ==
    IF mode = "health_execute" THEN "execute"
    ELSE IF mode = "health_connect" THEN "connect" ELSE "ok"

PerfFault(mode) ==
    IF mode = "perf_execute" THEN "execute"
    ELSE IF mode = "perf_connect" THEN "connect" ELSE "ok"

\* The body under the decorator: a coroutine function (async def), as every
\* scrape_* function of scrapers/ is, or a plain (blocking) function.
BodyKinds == {"coroutine", "blocking"}

\* result = await func(*args, **kwargs), given how the call func(...) ends.
\* A coroutine function's call gives a coroutine, awaited to its outcome.  A
\* plain function runs inside the call; its exception leaves the call, and
\* its return value is handed to await, which raises TypeError for a value
\* that is no awaitable.
AwaitFunc(body, o) ==
    IF body = "blocking" /\ o.kind = "return"
    THEN [kind |-> "raise", value |-> NULL, exc |-> "Exception",
          msg |-> "object can't be used in 'await' expression"]
    ELSE o

IdleRun ==
    [pc |-> "idle", job |-> NULL, body |-> NULL, start_time |-> 0,
     outcome |-> NULL, status |-> NULL, exit |-> NULL]

\* update_scraper_health: INSERT OR REPLACE of the row of scraper_name.
update_scraper_health(table, scraper_name, timestamp, fault) ==
    IF fault # "ok" THEN table
    ELSE {r \in table : r.scraper_name # scraper_name}
            \cup {[scraper_name |-> scraper_name, last_run |-> timestamp]}

\* log_scraper_performance: INSERT under PRIMARY KEY (scraper_name, timestamp);
\* an IntegrityError is caught and logged like any other exception.  The
\* field run is not a column: it names the execution that wrote the row.
log_scraper_performance(table, scraper_name, timestamp, duration, status, error_message, fault, run) ==
    IF fault # "ok" THEN table
    ELSE IF \E r \in table : r.scraper_name = scraper_name
                             /\ r.timestamp = timestamp THEN table
    ELSE table \cup {[scraper_name |-> scraper_name, timestamp |-> timestamp,
                       duration |-> duration, status |-> status,
                       error_message |-> error_message, run |-> run]}

\* result == ScraperStatus.SKIPPED_ROBOTS or (isinstance(result, str) and
\* result == ScraperStatus.SKIPPED_ROBOTS.value): ScraperStatus is a str, so
\* both sides compare the string values.
IsSkipSentinel(result) ==
    /\ result[1] \in {"ScraperStatus", "str"}
    /\ result[2] = ScraperStatus.SKIPPED_ROBOTS

\* A plausible slip: comparing by identity (is), which the plain string fails.
IsSkipSentinelByIdentity(result) ==
    /\ result[1] = "ScraperStatus"
    /\ result[2] = ScraperStatus.SKIPPED_ROBOTS

IsSkip(result) == IsSkipSentinel(result)

\* The except clause of the wrapper: except Exception.
CaughtByExceptException(exc) == exc = "Exception"

\* A plausible slip: no except clause, or a re-raise at its end.
CaughtNever(exc) == FALSE

WrapperCatches(exc) == CaughtByExceptException(exc)

\* The try/except of wrapper, from the end of the awaited body to the
\* finally: the final status, error text, whether update_scraper_health is
\* called, and how the wrapper is left.  A "connect" failure of
\* update_scraper_health is an Exception raised inside the try.
WrapperVerdictAsCoded(o, healthFault) ==
    IF o.kind = "return" /\ IsSkip(o.value)
    THEN [status |-> ScraperStatus.SKIPPED_ROBOTS, error_message |-> NULL,
          callsHealth |-> FALSE, exit |-> "returned"]
    ELSE IF o.kind = "return" /\ healthFault = "connect"
    THEN [status |-> ScraperStatus.FAILED,
          error_message |-> "unable to open database file",
          callsHealth |-> TRUE, exit |-> "returned"]
    ELSE IF o.kind = "return"
    THEN [status |-> ScraperStatus.SUCCESS, error_message |-> NULL,
          callsHealth |-> TRUE, exit |-> "returned"]
    ELSE IF WrapperCatches(o.exc)
    THEN [status |-> ScraperStatus.FAILED, error_message |-> o.msg,
          callsHealth |-> FALSE, exit |-> "returned"]
    ELSE [status |-> ScraperStatus.SUCCESS, error_message |-> NULL,
          callsHealth |-> FALSE, exit |-> "raised"]

\* A plausible slip: update_scraper_health moved to the finally block.
WrapperVerdictHealthInFinally(o, healthFault) ==
    [WrapperVerdictAsCoded(o, healthFault) EXCEPT !.callsHealth = TRUE]

\* A plausible slip: the success path returns before update_scraper_health.
WrapperVerdictWithoutHealth(o, healthFault) ==
    [WrapperVerdictAsCoded(o, healthFault) EXCEPT !.callsHealth = FALSE]

WrapperVerdict(o, healthFault) == WrapperVerdictAsCoded(o, healthFault)

\* A plausible slip: log_scraper_performance called in the finally block
\* without a try around it, so that what sqlite3.connect raises leaves wrapper.
ExitUnguardedFinally(v, perfFault) ==
    IF perfFault = "connect" THEN "raised" ELSE v.exit

\* How wrapper ends after its finally block: log_scraper_performance catches
\* what execute and commit raise, and the finally block's own try catches any
\* Exception the call raises (sqlite3.connect, before the function's try), so
\* a failed RunRecord write changes nothing about how the wrapper ends.
ExitAfterFinally(v, perfFault) == v.exit

\* The scheduler fires job, whose body is of the given kind: wrapper runs to
\* its await of the body.
wrapper_enter_body(r, job, body) ==
    /\ runs[r].pc = "idle"
    /\ \A q \in RunIds : q < r => runs[q].pc # "idle"   \* numbered as fired
    /\ runs' = [runs EXCEPT ![r] = [IdleRun EXCEPT !.pc = "running",
                        !.job = job, !.body = body, !.start_time = now]]
    /\ UNCHANGED <<now, channels, gigs, notifications, saves, health, perf, dbFault, fetchVars>>

\* The jobs of scrapers/: coroutine functions.
wrapper_enter(r, job) == wrapper_enter_body(r, job, "coroutine")

\* The body ends; wrapper runs to its end without suspending.  Each ledger
\* write is serialized on the event-loop thread and lasts longer than the
\* clock's resolution, so the clock has advanced after the RunRecord write.
wrapper_exit(r, o) ==
    /\ runs[r].pc = "running"
    /\ LET v == WrapperVerdict(AwaitFunc(runs[r].body, o), HealthFault(dbFault)) IN
        /\ health' = IF v.callsHealth
                      THEN update_scraper_health(health, runs[r].job, now,
                                                 HealthFault(dbFault))
                      ELSE health
        /\ perf' = log_scraper_performance(perf, runs[r].job, now,
                        now - runs[r].start_time, v.status, v.error_message,
                        PerfFault(dbFault), r)
        /\ runs' = [runs EXCEPT ![r].pc = "done", ![r].outcome = o,
                                 ![r].status = v.status,
                                 ![r].exit = ExitAfterFinally(v, PerfFault(dbFault))]
    /\ now' = now + 1
    /\ UNCHANGED <<channels, gigs, notifications, saves, dbFault, fetchVars>>

\* Time passes.
Tick ==
    /\ now < MaxTime
    /\ now' = now + 1
    /\ UNCHANGED <<channels, gigs, notifications, saves, health, perf, runs, dbFault, fetchVars>>

(***************************************************************************)
(* Resilient fetcher: core/http_utils.py, fetch_url_with_retries under     *)
(* tenacity's @retry.  The call is synchronous: it occupies its thread     *)
(* from the first attempt to the return or raise, backoff sleeps included. *)
(***************************************************************************)
Response(status) == [kind |-> "response", status |-> status]
NetworkError(class) == [kind |-> class, status |-> 0]

\* What one call of method(url, **kwargs) can give.
NetOutcomes ==
    {Response(200), Response(404), Response(503), NetworkError("Timeout")}

\* if e.response.status_code in [429, 500, 502, 503]
RetryableStatuses == {429, 500, 502, 503}

\* The exception one attempt raises, NULL if it returns the response:
\* response.raise_for_status() raises HTTPError for 400..599, and every
\* except clause of the function ends in raise.
AttemptRaises(o) ==
    IF o.kind = "response"
    THEN IF o.status >= 400 /\ o.status < 600 THEN "HTTPError" ELSE NULL
    ELSE o.kind

\* The severity the attempt is logged at.
AttemptLogLevel(o) ==
    IF AttemptRaises(o) = NULL THEN "info"
    ELSE IF o.kind = "response" /\ o.status \notin RetryableStatuses THEN "error"
    ELSE "warning"

\* requests.exceptions: HTTPError, Timeout and ConnectionError derive from
\* RequestException.
IsInstance(exc, class) ==
    exc = class \/ (class = "RequestException"
                      /\ exc \in {"HTTPError", "Timeout", "ConnectionError"})

\* retry=(retry_if_exception_type(Timeout) | retry_if_exception_type(
\* ConnectionError) | retry_if_exception_type(RequestException))
RetryPredicate(exc) ==
    \/ IsInstance(exc, "Timeout")
    \/ IsInstance(exc, "ConnectionError")
    \/ IsInstance(exc, "RequestException")

\* stop=stop_after_attempt(config.retry_attempts)
StopAfterAttempt(attempt_number, max_attempt_number) ==
    attempt_number >= max_attempt_number

\* A plausible slip: counting retries instead of attempts.
StopOneAttemptEarly(attempt_number, max_attempt_number) ==
    attempt_number >= max_attempt_number - 1

Stop(attempt_number, max_attempt_number) ==
    StopAfterAttempt(attempt_number, max_attempt_number)

WaitMultiplier == 1
WaitMin == 4
WaitMax == 10

Min(a, b) == IF a < b THEN a ELSE b
Max(a, b) == IF a > b THEN a ELSE b

\* A plausible slip: the exponential wait without its floor and ceiling.
WaitUnclamped(attempt_number) == WaitMultiplier * 2 ^ (attempt_number - 1)

\* wait=wait_exponential(multiplier=1, min=4, max=10): seconds slept after
\* attempt attempt_number.
WaitExponential(attempt_number) ==
    Max(Max(0, WaitMin), Min(WaitMultiplier * 2 ^ (attempt_number - 1), WaitMax))

NoUrl == [netloc |-> NULL, path |-> NULL]

IdleFetch ==
    [pc |-> "idle", url |-> NoUrl, history |-> <<>>, waits |-> <<>>, exc |-> NULL]

FetchEnded == fetch.pc \in {"returned", "raised"}

\* fetch_url_with_retries(method, url) is called: the thread is free.
fetch_begin(url) ==
    /\ fetch.pc \in {"idle", "returned", "raised"}
    /\ fetch' = [IdleFetch EXCEPT !.pc = "attempt", !.url = url]

\* One attempt: method(url), raise_for_status, and tenacity's decision.
fetch_attempt(o) ==
    /\ fetch.pc = "attempt"
    /\ LET history == Append(fetch.history, o)
           attempt_number == Len(history)
           exc == AttemptRaises(o)
       IN  fetch' =
             IF exc = NULL
             THEN [fetch EXCEPT !.pc = "returned", !.history = history]
             ELSE IF RetryPredicate(exc) /\ ~Stop(attempt_number, retry_attempts)
             THEN [fetch EXCEPT !.pc = "wait", !.history = history, !.exc = exc,
                        !.waits = Append(fetch.waits, WaitExponential(attempt_number))]
             ELSE [fetch EXCEPT !.pc = "raised", !.history = history, !.exc = exc]

\* time.sleep of the backoff returns.
fetch_backoff ==
    /\ fetch.pc = "wait"
    /\ fetch' = [fetch EXCEPT !.pc = "attempt"]

(***************************************************************************)
(* Robots.txt cache: core/robots.py.  get_robots_parser and is_url_allowed *)
(* are coroutines without an await inside: a call, with its blocking       *)
(* fetch, runs on the event-loop thread without another coroutine between. *)
(***************************************************************************)
Domains == {"jiji.ug", "www.reddit.com"}
Paths == {"/search", "/item"}
Urls == [netloc : Domains, path : Paths]

\* urllib.parse.urlparse(url).netloc
get_domain_from_url(url) == url.netloc

RobotsTxtUrl(domain) == [netloc |-> domain, path |-> "/robots.txt"]

\* A parsed robots.txt, as the set of paths it disallows.
Rulesets == {{}, {"/search"}}

\* The states of a domain in _robots_parsers: no key, None, or a parser.
AbsentEntry == [kind |-> "absent", rules |-> {}]
NoneEntry == [kind |-> "None", rules |-> {}]
ParserEntry(ruleset) == [kind |-> "parser", rules |-> ruleset]

\* parser.is_url_allowed(user_agent, url)
ParserAllows(ruleset, url) == url.path \notin ruleset

\* is_url_allowed, given the entry get_robots_parser returns: a parser
\* decides, None allows.
IsAllowed(entry, url) ==
    IF entry.kind = "parser" THEN ParserAllows(entry.rules, url) ELSE TRUE

\* Both except branches: _robots_parsers[domain] = None.
CacheNone(cache, domain) == [cache EXCEPT ![domain] = NoneEntry]

\* A plausible slip: a failure is logged and nothing is cached.
CacheNothing(cache, domain) == cache

CacheFailure(cache, domain) == CacheNone(cache, domain)

\* pending: <<url>> while a call waits for its fetch.  calls: the answers
\* given.  fetches: calls of fetch_url_with_retries for the domain's
\* robots.txt.  failed: domains whose fetch or parse failed.
IdleRobots ==
    [pending |-> <<>>, calls |-> <<>>, fetches |-> [d \in Domains |-> 0],
     failed |-> {}]

RobotsCall(url, allowed) ==
    [domain |-> get_domain_from_url(url), path |-> url.path, allowed |-> allowed]

\* is_url_allowed(url): a cache hit answers at once; a miss starts the
\* fetch of robots.txt.
is_url_allowed(url) ==
    /\ robots.pending = <<>>
    /\ fetch.pc \in {"idle", "returned", "raised"}
    /\ Len(robots.calls) < MaxRobotsCalls
    /\ LET domain == get_domain_from_url(url) IN
        IF robots_parsers[domain] # AbsentEntry
        THEN /\ robots' = [robots EXCEPT !.calls = Append(@,
                        RobotsCall(url, IsAllowed(robots_parsers[domain], url)))]
             /\ UNCHANGED <<fetch, robots_parsers>>
        ELSE /\ fetch_begin(RobotsTxtUrl(domain))
             /\ robots' = [robots EXCEPT !.pending = <<url>>,
                                          !.fetches[domain] = @ + 1]
             /\ UNCHANGED robots_parsers
    /\ UNCHANGED <<now, channels, storeVars, ledgerVars, retry_attempts, monitor, auxVars>>

\* The fetch ended: get_robots_parser stores the parser or None, and
\* is_url_allowed answers.  parsed: the parser built from the response, or
\* NoneEntry if parse() raised.
is_url_allowed_answer(parsed) ==
    /\ robots.pending # <<>>
    /\ FetchEnded
    /\ (fetch.pc = "raised") => parsed = NoneEntry
    /\ LET url == robots.pending[1]
           domain == get_domain_from_url(url)
           cache == IF parsed = NoneEntry
                    THEN CacheFailure(robots_parsers, domain)
                    ELSE [robots_parsers EXCEPT ![domain] = parsed]
       IN
        /\ robots_parsers' = cache
        /\ robots' = [robots EXCEPT
                !.pending = <<>>,
                !.failed = IF parsed = NoneEntry THEN @ \cup {domain} ELSE @,
                !.calls = Append(@, RobotsCall(url, IsAllowed(cache[domain], url)))]
        /\ fetch' = IdleFetch
    /\ UNCHANGED <<now, channels, storeVars, ledgerVars, retry_attempts, monitor, auxVars>>

(***************************************************************************)
(* Health monitor: check_scraper_health of core/storage.py, scheduled by   *)
(* main.py every health_check_interval_minutes with that interval as its   *)
(* threshold.  The clock counts minutes here.                              *)
(***************************************************************************)
\* config.get("health_check_interval_minutes", 30)
Threshold == 30

\* config.enabled_scrapers: the jobs this process schedules.
EnabledJobs == {"discord", "jiji"}

\* The names the health ledger can hold a row under when the process starts:
\* the scheduled jobs, and the key an earlier process wrote when reddit was
\* among its scrapers: scrape_reddit calls
\* update_scraper_health(f"reddit.{subreddit}"), a name that is no job's.
LedgerNames == EnabledJobs \cup {"reddit.forhire"}

\* Minutes since the last successful run that rows left by an earlier
\* process show when this one starts.
Ages == {Threshold + 1, Threshold, Threshold - 20}

\* alert_message of check_scraper_health; kind "stale" for a last run older
\* than the threshold, "no_run" for an empty last_run.
AlertMessage(scraper_name, kind) == <<"Health Alert", scraper_name, kind>>

\* The source labels the scrapers pass to save_gig (those built from a city,
\* country or subreddit, by one instance each).
ScraperSourceLabels ==
    {"ClassifiedAds", "DigitalPoint", "Discord", "Jiji", "Telegram", "WarriorForum",
     "Craigslist (newyork)", "Gumtree (UK)", "Locanto (UK)", "Reddit (r/forhire)"}

\* The alert as the dispatcher gets it from check_scraper_health.
HealthCheckAlert(scraper_name, kind) ==
    NotificationCall("Health Check", AlertMessage(scraper_name, kind), "",
                     AlertMessage(scraper_name, kind))

\* A plausible slip: the alert sent under the label of an opportunity source.
AlertUnderScraperLabel(scraper_name, kind) ==
    NotificationCall("Jiji", AlertMessage(scraper_name, kind), "",
                     AlertMessage(scraper_name, kind))

\* send_notification("Health Check", alert_message, "", alert_message)
HealthAlert(scraper_name, kind) == HealthCheckAlert(scraper_name, kind)

\* The branch of the loop body a row takes: "stale" and "no_run" alert.
RowVerdict(row, current_time_utc, threshold_minutes) ==
    IF row.last_run \notin Int THEN "no_run"
    ELSE IF current_time_utc - row.last_run > threshold_minutes THEN "stale"
    ELSE "healthy"

\* n: invocations begun.  rows: the rows fetched by the SELECT.  todo: the
\* rows the loop has not reached.  alerted: the scraper names alerted in
\* this invocation, in order.
IdleMonitor ==
    [pc |-> "idle", n |-> 0, threshold |-> 0, current_time_utc |-> 0,
     rows |-> {}, todo |-> {}, alerted |-> <<>>]

\* check_scraper_health(threshold_minutes), to the loop: SELECT every row of
\* scraper_health and read the clock.  The scheduler runs one instance of a
\* job at a time.
check_scraper_health(threshold_minutes) ==
    /\ monitor.pc \in {"idle", "done", "raised"}
    /\ monitor.n < MaxChecks
    /\ monitor' = [pc |-> "loop", n |-> monitor.n + 1,
                   threshold |-> threshold_minutes, current_time_utc |-> now,
                   rows |-> health, todo |-> health, alerted |-> <<>>]
    /\ UNCHANGED <<now, channels, storeVars, ledgerVars, retry_attempts,
                   fetch, robots_parsers, robots, auxVars>>

\* One turn of the loop, for the next row of the result (the SELECT has no
\* ORDER BY).  An alert awaits send_notification outside any try: if that
\* raises, the exception ends check_scraper_health.
check_scraper_health_row(row, raises) ==
    /\ monitor.pc = "loop"
    /\ row \in monitor.todo
    /\ LET verdict == RowVerdict(row, monitor.current_time_utc, monitor.threshold) IN
        IF verdict = "healthy"
        THEN /\ ~raises
             /\ monitor' = [monitor EXCEPT !.todo = @ \ {row}]
             /\ UNCHANGED notifications
        ELSE /\ raises => send_notification_may_raise(channels)
             /\ notifications' = Append(notifications,
                                        HealthAlert(row.scraper_name, verdict))
             /\ monitor' = [monitor EXCEPT
                    !.todo = @ \ {row},
                    !.alerted = Append(@, row.scraper_name),
                    !.pc = IF raises THEN "raised" ELSE @]
    /\ UNCHANGED <<now, channels, gigs, saves, ledgerVars, retry_attempts,
                   fetch, robots_parsers, robots, auxVars>>

\* The loop is over: check_scraper_health returns.
check_scraper_health_return ==
    /\ monitor.pc = "loop"
    /\ monitor.todo = {}
    /\ monitor' = [monitor EXCEPT !.pc = "done"]
    /\ UNCHANGED <<now, channels, storeVars, ledgerVars, retry_attempts,
                   fetch, robots_parsers, robots, auxVars>>

(***************************************************************************)
(* Throttler and identity rotation: core/throttler.py, core/proxies.py.    *)
(* Durations are counted in ticks, Resolution ticks to the second.         *)
(***************************************************************************)
MaxDelaySeconds == 2
Resolution == 2

\* Config.validate: delay_range is a list of two numbers with
\* 0 <= min <= max.
DelayRanges ==
    {r \in (0..MaxDelaySeconds) \X (0..MaxDelaySeconds) : r[1] <= r[2]}

\* random.uniform(a, b): a + (b - a) * random.random(), random() in [0, 1);
\* rounding can give b itself.  In ticks.
Uniform(a, b) == {a * Resolution + (b - a) * k : k \in 0..Resolution}

\* A plausible slip: random.uniform(0, max_seconds).
UniformFromZero(a, b) == {b * k : k \in 0..Resolution}

\* The durations randomized_delay hands to time.sleep.
BlockingDelays(a, b) == Uniform(a, b)

\* The durations async_randomized_delay hands to asyncio.sleep.
AsyncDelays(a, b) == Uniform(a, b)

IdleThrottle == [mode |-> "idle", delay |-> 0]

\* randomized_delay(): the calling thread sleeps for the drawn duration.
randomized_delay(delay) ==
    /\ delay \in BlockingDelays(delay_range[1], delay_range[2])
    /\ throttle' = [mode |-> "blocking", delay |-> delay]

\* async_randomized_delay(): the calling coroutine is suspended for the
\* drawn duration.
async_randomized_delay(delay) ==
    /\ delay \in AsyncDelays(delay_range[1], delay_range[2])
    /\ throttle' = [mode |-> "async", delay |-> delay]

\* The entries a proxy_list is made of.
ProxyPool == <<"http://proxy1:8080", "http://proxy2:8080">>
ProxyLists == {SubSeq(ProxyPool, 1, n) : n \in 0..Len(ProxyPool)}

\* get_proxy returns None, or a dict with the chosen proxy under both keys.
NoProxy == [http |-> NULL, https |-> NULL]
ProxyDict(entry) == [http |-> entry, https |-> entry]

\* get_proxy: what it can return under the settings.
ProxyChoices(use, proxies) ==
    IF ~use THEN {NoProxy}
    ELSE IF proxies = <<>> THEN {NoProxy}
    ELSE {ProxyDict(proxies[i]) : i \in DOMAIN proxies}

\* A plausible slip: the use_proxies flag is not consulted.
ProxyChoicesWithoutFlag(use, proxies) ==
    IF proxies = <<>> THEN {NoProxy}
    ELSE {ProxyDict(proxies[i]) : i \in DOMAIN proxies}

GetProxyResults(use, proxies) == ProxyChoices(use, proxies)

IdleProxy == [pc |-> "idle", result |-> NoProxy]

get_proxy(result) ==
    /\ result \in GetProxyResults(use_proxies, proxy_list)
    /\ proxy' = [pc |-> "returned", result |-> result]

\* Settings of a process in which neither is followed.
InitLeaf ==
    /\ delay_range = <<1, 2>>
    /\ throttle = IdleThrottle
    /\ use_proxies = FALSE
    /\ proxy_list = <<>>
    /\ proxy = IdleProxy

(***************************************************************************)
(* Scheduler and scraper jobs: main.py and scrapers/.  main registers      *)
(* every coroutine function named scrape_* of an enabled module with the   *)
(* AsyncIOScheduler, which runs it as a coroutine on the event loop.       *)
(***************************************************************************)
\* The modules of scrapers/ followed here, and their functions named
\* scrape_*, all coroutine functions.
Modules == {"classifiedads", "jiji", "reddit", "telegram"}
ScrapeJobs ==
    {"scrape_classifiedads", "scrape_classifiedads_page", "scrape_jiji",
     "scrape_reddit", "scrape_telegram"}

ExecIds == 1..MaxExecs

\* BASE_URL of classifiedads.py and jiji.py; search_url of reddit.py for the
\* first entries of SUBREDDITS.
ClassifiedAdsUrl == [netloc |-> "www.classifiedads.com", path |-> "/computer_services/"]
JijiUrl == [netloc |-> "jiji.ug", path |-> "/search"]
Subreddits == <<"forhire", "jobbit">>
SubredditPaths == <<"/r/forhire/search.json", "/r/jobbit/search.json">>
SubredditLedgerNames == <<"reddit.forhire", "reddit.jobbit">>
RedditUrl(i) == [netloc |-> "www.reddit.com", path |-> SubredditPaths[i]]

\* The URLs a job requests pages from, in order.
JobTargets(job) ==
    CASE job = "scrape_jiji" -> <<JijiUrl>>
      [] job \in {"scrape_classifiedads", "scrape_classifiedads_page"} -> <<ClassifiedAdsUrl>>
      [] job = "scrape_reddit" -> [i \in DOMAIN Subreddits |-> RedditUrl(i)]
      [] OTHER -> <<>>

\* Whether the job asks is_url_allowed before requesting its target.
\* scrape_classifiedads_page is the page helper of scrape_classifiedads: it
\* requests its page without asking.
ChecksRobots(job) == job \in {"scrape_jiji", "scrape_classifiedads", "scrape_reddit"}

\* The name the job's ledger rows carry: the argument of @scraper_lifecycle,
\* scraper_name of scrape_jiji and scrape_telegram, f"reddit.{subreddit}" of
\* scrape_reddit.
LedgerName(job, i) ==
    CASE job = "scrape_jiji" -> "jiji"
      [] job = "scrape_classifiedads" -> "classifiedads"
      [] job = "scrape_reddit" -> SubredditLedgerNames[i]
      [] job = "scrape_telegram" -> "telegram"
      [] OTHER -> NULL

\* The module of the function, as listed in enabled_scrapers.
JobName(job) ==
    CASE job = "scrape_jiji" -> "jiji"
      [] job = "scrape_classifiedads" -> "classifiedads"
      [] job = "scrape_classifiedads_page" -> "classifiedads"
      [] job = "scrape_reddit" -> "reddit"
      [] OTHER -> "telegram"

\* main's discovery: every scrape_* coroutine function of an enabled module.
RegisteredJobs(modules) == {job \in ScrapeJobs : JobName(job) \in modules}

\* The domains whose robots.txt the jobs consult, and the cache once each
\* has been fetched: every robots.txt allows all (jiji.ug has none), or
\* every robots.txt disallows the first target of its domain.
JobDomains == {"www.classifiedads.com", "jiji.ug", "www.reddit.com"}
FirstTarget(domain) ==
    CASE domain = "jiji.ug" -> JijiUrl
      [] domain = "www.reddit.com" -> RedditUrl(1)
      [] OTHER -> ClassifiedAdsUrl
FilledCaches ==
    {[d \in JobDomains |-> IF d \in blocked
                           THEN ParserEntry({FirstTarget(d).path})
                           ELSE IF d = "jiji.ug" THEN NoneEntry
                           ELSE ParserEntry({})] : blocked \in {{}, JobDomains}}

\* is_url_allowed(url) for a domain already in _robots_parsers: no fetch, no
\* suspension.
is_url_allowed_cached(url) == IsAllowed(robots_parsers[get_domain_from_url(url)], url)

\* i: the target the body is at.  requested: the targets it requested a page
\* from.  saved: its save_gig calls.  blocked: the ledger names of the
\* passes is_url_allowed refused.  health_written: the names it called
\* update_scraper_health with.
IdleExec ==
    [pc |-> "idle", job |-> NULL, i |-> 1, status |-> NULL,
     requested |-> {}, saved |-> 0, blocked |-> {}, health_written |-> {}]

\* The event-loop thread is free: no coroutine is inside the synchronous
\* fetch_url_with_retries (requests.get, and time.sleep between attempts).
LoopFree == fetch.pc = "idle"

\* The AsyncIOScheduler fires triggers from timers of the event loop, while
\* it is running.
FiresWhileRunning(state) == state = "running"

\* A plausible slip: timers left armed by shutdown.
FiresAlways(state) == TRUE

SchedulerFires(state) == FiresWhileRunning(state)

\* scheduler.add_job(scraper, IntervalTrigger(minutes=10), id=...) names no
\* max_instances and the scheduler is built without job_defaults, so the
\* scheduler's own default holds: one running instance per job id.
MaxInstances == 1

\* The executions of job in flight: fired and not yet ended.
RunningInstances(job) ==
    Cardinality({e \in ExecIds : execs[e].job = job
                                   /\ execs[e].pc \notin {"idle", "done"}})

\* A trigger that falls due while the job has MaxInstances executions in
\* flight is skipped with a warning.
BelowMaxInstances(job) == RunningInstances(job) < MaxInstances

\* A plausible slip: no limit on the instances of a job.
NoInstanceLimit(job) == TRUE

InstanceFree(job) == BelowMaxInstances(job)

\* A trigger of job fires: the scheduler starts its coroutine.
fire(e, job) ==
    /\ SchedulerFires(scheduler)
    /\ LoopFree
    /\ InstanceFree(job)
    /\ job \in RegisteredJobs(enabled)
    /\ execs[e].pc = "idle"
    /\ \A d \in ExecIds : d < e => execs[d].pc # "idle"
    /\ execs' = [execs EXCEPT ![e] = [IdleExec EXCEPT !.pc = "begin", !.job = job]]
    /\ UNCHANGED <<now, channels, storeVars, health, perf, runs, dbFault,
                   retry_attempts, fetch, robots_parsers, robots, monitor,
                   dispatches, enabled, scheduler, leafVars>>

\* main's except (KeyboardInterrupt, SystemExit): scheduler.shutdown().
main_shutdown ==
    /\ scheduler = "running"
    /\ LoopFree
    /\ scheduler' = "stopped"
    /\ UNCHANGED <<now, channels, storeVars, ledgerVars, retry_attempts, fetch,
                   robots_parsers, robots, monitor, dispatches, enabled, execs,
                   leafVars>>

\* What the end of one target's pass does to the ledgers, by job; outcome is
\* "skipped" (robots), "failed" (an exception reached the job's except) or
\* "ok".  scrape_classifiedads returns an int on every path, which the
\* wrapper takes as success; its helper writes nothing; scrape_jiji and
\* scrape_reddit keep their own status.
PassVerdict(job, outcome) ==
    IF job = "scrape_classifiedads"
    THEN LET v == WrapperVerdict([kind |-> "return", value |-> <<"int", 0>>,
                                  exc |-> NULL, msg |-> NULL], "ok") IN
         [logs |-> TRUE, status |-> v.status, callsHealth |-> v.callsHealth,
          error_message |-> v.error_message]
    ELSE IF job = "scrape_classifiedads_page"
    THEN [logs |-> FALSE, status |-> NULL, callsHealth |-> FALSE,
          error_message |-> NULL]
    ELSE IF outcome = "skipped"
    THEN [logs |-> TRUE, status |-> "skipped_robots", callsHealth |-> FALSE,
          error_message |-> NULL]
    ELSE IF outcome = "failed"
    THEN [logs |-> TRUE, status |-> "failed", callsHealth |-> FALSE,
          error_message |-> "error"]
    ELSE [logs |-> TRUE, status |-> "success", callsHealth |-> TRUE,
          error_message |-> NULL]

\* The pass over target i of execution e ends with outcome: ledger writes,
\* then the next target (scrape_reddit's loop) or the end of the body.
EndPass(e, outcome) ==
    LET job == execs[e].job
        i == execs[e].i
        v == PassVerdict(job, outcome)
        last == i >= Len(JobTargets(job)) IN
    /\ health' = IF v.callsHealth
                  THEN update_scraper_health(health, LedgerName(job, i), now, "ok")
                  ELSE health
    /\ perf' = IF v.logs
                THEN log_scraper_performance(perf, LedgerName(job, i), now, 0,
                                             v.status, v.error_message, "ok", e)
                ELSE perf
    /\ now' = IF v.logs THEN now + 1 ELSE now
    /\ execs' = [execs EXCEPT
            ![e].pc = IF last THEN "done" ELSE "begin",
            ![e].i = IF last THEN @ ELSE @ + 1,
            ![e].status = v.status,
            ![e].blocked = IF outcome = "skipped"
                           THEN @ \cup {LedgerName(job, i)} ELSE @,
            ![e].health_written = IF v.callsHealth
                                  THEN @ \cup {LedgerName(job, i)} ELSE @]

notJobs == <<channels, saves, runs, dbFault, retry_attempts, robots_parsers,
             robots, monitor, dispatches, enabled, scheduler, leafVars>>

\* The body from its start (or from the top of scrape_reddit's loop) to its
\* first suspension.  With a robots check: a refusal ends the pass without a
\* request; otherwise the body awaits async_randomized_delay.
\* scrape_telegram: placeholder credentials log a failed run and return;
\* otherwise it awaits client.start.
job_begin(e, credentials) ==
    /\ execs[e].pc = "begin"
    /\ LoopFree
    /\ LET job == execs[e].job IN
        IF job = "scrape_telegram"
        THEN IF credentials
             THEN /\ execs' = [execs EXCEPT ![e].pc = "connecting"]
                  /\ UNCHANGED <<now, health, perf>>
             ELSE /\ perf' = log_scraper_performance(perf, "telegram", now, 0,
                        "failed", "Telegram API ID or Hash not set.", "ok", e)
                  /\ now' = now + 1
                  /\ execs' = [execs EXCEPT ![e].pc = "done", ![e].status = "failed"]
                  /\ UNCHANGED health
        ELSE /\ credentials
             /\ IF ChecksRobots(job) /\ ~is_url_allowed_cached(JobTargets(job)[execs[e].i])
                THEN EndPass(e, "skipped")
                ELSE /\ execs' = [execs EXCEPT ![e].pc = "delay"]
                     /\ UNCHANGED <<now, health, perf>>
    /\ UNCHANGED <<gigs, notifications, fetch, notJobs>>

\* The delay is over: the body calls fetch_url_with_retries, which runs on
\* the event-loop thread until it returns or raises.
job_request(e) ==
    /\ execs[e].pc = "delay"
    /\ LoopFree
    /\ LET url == JobTargets(execs[e].job)[execs[e].i] IN
        /\ fetch_begin(url)
        /\ execs' = [execs EXCEPT ![e].pc = "fetching",
                                   ![e].requested = @ \cup {url}]
    /\ UNCHANGED <<now, gigs, notifications, health, perf, notJobs>>

\* fetch_url_with_retries has ended.  An exception ends the pass: caught by
\* the job's except, by the page helper's (return 0).  A page with a
\* listing that looks like a gig leads to await save_gig; a page without
\* ends the pass.
job_response(e, found) ==
    /\ execs[e].pc = "fetching"
    /\ FetchEnded
    /\ fetch' = IdleFetch
    /\ IF fetch.pc = "raised"
       THEN /\ ~found
            /\ EndPass(e, "failed")
       ELSE IF found
       THEN /\ execs' = [execs EXCEPT ![e].pc = "saving", ![e].saved = @ + 1]
            /\ UNCHANGED <<now, health, perf>>
       ELSE EndPass(e, "ok")
    /\ UNCHANGED <<gigs, notifications, notJobs>>

\* The arguments of the job's save_gig call.
SaveArgs(job, i) ==
    [source |-> JobName(job), title |-> "Hiring dev",
     link |-> JobTargets(job)[i].path, snippet |-> "snip",
     timestamp |-> ToString(now)]

\* await save_gig(...) ends: the insert, and for a new row the
\* notification, whose exception leaves save_gig and ends the pass in the
\* job's except (the page helper catches it and goes on).
job_saved(e, raises) ==
    /\ execs[e].pc = "saving"
    /\ LoopFree
    /\ LET s == SaveArgs(execs[e].job, execs[e].i)
           r == sync_save_gig_db_ops(gigs, s, FALSE) IN
        /\ gigs' = r[1]
        /\ notifications' =
                IF ShouldNotify(r[2])
                THEN Append(notifications,
                            NotificationCall(s.source, s.title, s.link, s.snippet))
                ELSE notifications
        /\ raises => ShouldNotify(r[2]) /\ send_notification_may_raise(channels)
    /\ EndPass(e, IF raises THEN "failed" ELSE "ok")
    /\ UNCHANGED <<fetch, notJobs>>

\* await client.start(...) ends: on success update_scraper_health, then
\* await client.run_until_disconnected(); an exception goes to except and
\* finally.
telegram_started(e, raises) ==
    /\ execs[e].pc = "connecting"
    /\ LoopFree
    /\ IF raises
       THEN /\ perf' = log_scraper_performance(perf, "telegram", now, 0,
                        "failed", "error", "ok", e)
            /\ now' = now + 1
            /\ execs' = [execs EXCEPT ![e].pc = "done", ![e].status = "failed"]
            /\ UNCHANGED health
       ELSE /\ health' = update_scraper_health(health, "telegram", now, "ok")
            /\ execs' = [execs EXCEPT ![e].pc = "listening",
                                       ![e].health_written = {"telegram"}]
            /\ UNCHANGED <<now, perf>>
    /\ UNCHANGED <<gigs, notifications, fetch, notJobs>>

\* await client.run_until_disconnected() ends, by return or by exception.
telegram_disconnected(e, raises) ==
    /\ execs[e].pc = "listening"
    /\ LoopFree
    /\ LET status == IF raises THEN "failed" ELSE "success" IN
        /\ perf' = log_scraper_performance(perf, "telegram", now, 0, status,
                        IF raises THEN "error" ELSE NULL, "ok", e)
        /\ execs' = [execs EXCEPT ![e].pc = "done", ![e].status = status]
    /\ now' = now + 1
    /\ UNCHANGED <<gigs, notifications, health, fetch, notJobs>>

InitAux ==
    /\ InitDispatches
    /\ InitLeaf
    /\ enabled = Modules
    /\ scheduler = "running"
    /\ execs = [e \in ExecIds |-> IdleExec]

InitFetchVars ==
    /\ retry_attempts \in 1..MaxRetryAttempts
    /\ fetch = IdleFetch
    /\ robots_parsers = [d \in Domains |-> AbsentEntry]
    /\ robots = IdleRobots
    /\ monitor = IdleMonitor
    /\ InitAux

(***************************************************************************)
(* The lifecycle wrapper and its ledgers                                   *)
(***************************************************************************)
\* The ledgers are on disk: rows of an earlier process (written at time 0)
\* may be there when this one starts, at time 1.
InitLifecycle ==
    /\ now = 1
    /\ channels = {}
    /\ gigs = {}
    /\ notifications = <<>>
    /\ saves = [c \in SaveIds |-> IdleSave]
    /\ \E old \in SUBSET Jobs :
            health = {[scraper_name |-> j, last_run |-> 0] : j \in old}
    /\ perf = {}
    /\ runs = [r \in RunIds |-> IdleRun]
    /\ dbFault \in DbFaults
    /\ retry_attempts = 1
    /\ fetch = IdleFetch
    /\ robots_parsers = [d \in Domains |-> AbsentEntry]
    /\ robots = IdleRobots
    /\ monitor = IdleMonitor
    /\ InitAux

WrapperEnter == \E r \in RunIds, job \in Jobs : wrapper_enter(r, job)
WrapperExit == \E r \in RunIds, o \in BodyOutcomes : wrapper_exit(r, o)

NextLifecycle == WrapperEnter \/ WrapperExit

SpecLifecycle == InitLifecycle /\ [][NextLifecycle]_vars

(***************************************************************************)
(* The lifecycle wrapper around bodies of either kind                      *)
(***************************************************************************)
WrapperEnterBody ==
    \E r \in RunIds, job \in Jobs, body \in BodyKinds : wrapper_enter_body(r, job, body)

NextDecorated == WrapperEnterBody \/ WrapperExit

SpecDecorated == InitLifecycle /\ [][NextDecorated]_vars

(***************************************************************************)
(* The throttler and the identity rotation, called by job bodies           *)
(***************************************************************************)
InitJobTools ==
    /\ now = 0
    /\ channels = {}
    /\ gigs = {}
    /\ notifications = <<>>
    /\ saves = [c \in SaveIds |-> IdleSave]
    /\ health = {}
    /\ perf = {}
    /\ runs = [r \in RunIds |-> IdleRun]
    /\ dbFault = "ok"
    /\ retry_attempts = 1
    /\ fetch = IdleFetch
    /\ robots_parsers = [d \in Domains |-> AbsentEntry]
    /\ robots = IdleRobots
    /\ monitor = IdleMonitor
    /\ InitDispatches
    /\ enabled = Modules
    /\ scheduler = "running"
    /\ execs = [e \in ExecIds |-> IdleExec]
    /\ delay_range \in DelayRanges
    /\ throttle = IdleThrottle
    /\ use_proxies \in BOOLEAN
    /\ proxy_list \in ProxyLists
    /\ proxy = IdleProxy

notThrottle ==
    <<now, channels, storeVars, ledgerVars, retry_attempts, fetch, robots_parsers,
      robots, monitor, dispatches, enabled, scheduler, execs, delay_range,
      use_proxies, proxy_list, proxy>>

notProxy ==
    <<now, channels, storeVars, ledgerVars, retry_attempts, fetch, robots_parsers,
      robots, monitor, dispatches, enabled, scheduler, execs, delay_range,
      use_proxies, proxy_list, throttle>>

RandomizedDelay ==
    /\ \E delay \in 0..(MaxDelaySeconds * Resolution) : randomized_delay(delay)
    /\ UNCHANGED notThrottle
AsyncRandomizedDelay ==
    /\ \E delay \in 0..(MaxDelaySeconds * Resolution) : async_randomized_delay(delay)
    /\ UNCHANGED notThrottle
GetProxy ==
    /\ \E result \in {NoProxy} \cup {ProxyDict(ProxyPool[i]) : i \in DOMAIN ProxyPool} :
            get_proxy(result)
    /\ UNCHANGED notProxy

NextJobTools == RandomizedDelay \/ AsyncRandomizedDelay \/ GetProxy

SpecJobTools == InitJobTools /\ [][NextJobTools]_vars

(***************************************************************************)
(* The fetcher alone, called by a job                                      *)
(***************************************************************************)
InitFetch ==
    /\ now = 0
    /\ channels = {}
    /\ gigs = {}
    /\ notifications = <<>>
    /\ saves = [c \in SaveIds |-> IdleSave]
    /\ health = {}
    /\ perf = {}
    /\ runs = [r \in RunIds |-> IdleRun]
    /\ dbFault = "ok"
    /\ InitFetchVars

notFetch ==
    <<now, channels, storeVars, ledgerVars, retry_attempts, robots_parsers,
      robots, monitor, auxVars>>

FetchBegin ==
    /\ robots.pending = <<>>
    /\ \E url \in Urls : fetch_begin(url)
    /\ UNCHANGED notFetch
FetchAttempt == (\E o \in NetOutcomes : fetch_attempt(o)) /\ UNCHANGED notFetch
FetchBackoff == fetch_backoff /\ UNCHANGED notFetch

NextFetch == FetchBegin \/ FetchAttempt \/ FetchBackoff

SpecFetch == InitFetch /\ [][NextFetch]_vars

(***************************************************************************)
(* The robots.txt cache with the fetcher under it                          *)
(***************************************************************************)
IsUrlAllowed == \E url \in Urls : is_url_allowed(url)
IsUrlAllowedAnswer ==
    \E parsed \in {ParserEntry(rs) : rs \in Rulesets} \cup {NoneEntry} :
        is_url_allowed_answer(parsed)

NextRobots == IsUrlAllowed \/ IsUrlAllowedAnswer \/ FetchAttempt \/ FetchBackoff

SpecRobots == InitFetch /\ [][NextRobots]_vars

(***************************************************************************)
(* The health monitor over the ledger an earlier process left               *)
(***************************************************************************)
InitHealth ==
    /\ now = 0
    /\ channels \in {{}, Channels}
    /\ gigs = {}
    /\ notifications = <<>>
    /\ saves = [c \in SaveIds |-> IdleSave]
    /\ \E recorded \in SUBSET LedgerNames :
        \E age \in [recorded -> Ages] :
            health = {[scraper_name |-> j, last_run |-> 0 - age[j]] : j \in recorded}
    /\ perf = {}
    /\ runs = [r \in RunIds |-> IdleRun]
    /\ dbFault = "ok"
    /\ retry_attempts = 1
    /\ fetch = IdleFetch
    /\ robots_parsers = [d \in Domains |-> AbsentEntry]
    /\ robots = IdleRobots
    /\ monitor = IdleMonitor
    /\ InitAux

CheckScraperHealth == check_scraper_health(Threshold)
CheckScraperHealthRow ==
    \E row \in monitor.todo, raises \in BOOLEAN : check_scraper_health_row(row, raises)
CheckScraperHealthReturn == check_scraper_health_return
Clock == Tick

NextHealth ==
    CheckScraperHealth \/ CheckScraperHealthRow \/ CheckScraperHealthReturn \/ Clock

SpecHealth == InitHealth /\ [][NextHealth]_vars

(***************************************************************************)
(* The notification dispatcher alone, called as in its __main__ block      *)
(***************************************************************************)
InitNotify ==
    /\ now = 1
    /\ channels \in SUBSET Channels
    /\ gigs = {}
    /\ notifications = <<>>
    /\ saves = [c \in SaveIds |-> IdleSave]
    /\ health = {}
    /\ perf = {}
    /\ runs = [r \in RunIds |-> IdleRun]
    /\ dbFault = "ok"
    /\ retry_attempts = 1
    /\ fetch = IdleFetch
    /\ robots_parsers = [d \in Domains |-> AbsentEntry]
    /\ robots = IdleRobots
    /\ monitor = IdleMonitor
    /\ InitAux

notNotify ==
    <<now, channels, gigs, saves, ledgerVars, retry_attempts, fetch,
      robots_parsers, robots, monitor, enabled, scheduler, execs, leafVars>>

SendNotification ==
    /\ \E d \in DispatchIds :
            send_notification(d, "Test Source", "Test Gig Title",
                              "http://example.com", "This is a test snippet for a gig.")
    /\ UNCHANGED notNotify

ChannelStart ==
    /\ \E d \in DispatchIds, ch \in Channels :
        \E outcome \in ChannelStartOutcomes(ch) :
            send_channel_notification_start(d, ch, outcome)
    /\ UNCHANGED <<notifications, notNotify>>

ChannelFinish ==
    /\ \E d \in DispatchIds, ch \in Channels :
        \E outcome \in ChannelFinishOutcomes(ch) :
            send_channel_notification_finish(d, ch, outcome)
    /\ UNCHANGED <<notifications, notNotify>>

SendNotificationResume ==
    /\ \E d \in DispatchIds : send_notification_resume(d)
    /\ UNCHANGED <<notifications, notNotify>>

NextNotify ==
    SendNotification \/ ChannelStart \/ ChannelFinish \/ SendNotificationResume

SpecNotify == InitNotify /\ [][NextNotify]_vars

(***************************************************************************)
(* The scheduler with its scraper jobs and the health check, once every    *)
(* robots.txt is cached                                                    *)
(***************************************************************************)
InitJobs ==
    /\ now = 1
    /\ channels = Channels
    /\ gigs = {}
    /\ notifications = <<>>
    /\ saves = [c \in SaveIds |-> IdleSave]
    /\ health = {}
    /\ perf = {}
    /\ runs = [r \in RunIds |-> IdleRun]
    /\ dbFault = "ok"
    /\ retry_attempts = 2
    /\ fetch = IdleFetch
    /\ robots_parsers \in FilledCaches
    /\ robots = IdleRobots
    /\ monitor = IdleMonitor
    /\ InitAux

Fire == \E e \in ExecIds, job \in ScrapeJobs : fire(e, job)
FireHealthCheck ==
    SchedulerFires(scheduler) /\ LoopFree /\ check_scraper_health(Threshold)
HealthCheckRow == LoopFree /\ CheckScraperHealthRow
HealthCheckReturn == LoopFree /\ CheckScraperHealthReturn
MainShutdown == main_shutdown
JobBegin == \E e \in ExecIds, credentials \in BOOLEAN : job_begin(e, credentials)
JobRequest == \E e \in ExecIds : job_request(e)
JobResponse == \E e \in ExecIds, found \in BOOLEAN : job_response(e, found)
JobSaved == \E e \in ExecIds, raises \in BOOLEAN : job_saved(e, raises)
TelegramStarted == \E e \in ExecIds, raises \in BOOLEAN : telegram_started(e, raises)
TelegramDisconnected ==
    \E e \in ExecIds, raises \in BOOLEAN : telegram_disconnected(e, raises)

NextJobs ==
    \/ Fire \/ FireHealthCheck \/ HealthCheckRow \/ HealthCheckReturn
    \/ MainShutdown
    \/ JobBegin \/ JobRequest \/ JobResponse \/ JobSaved
    \/ TelegramStarted \/ TelegramDisconnected
    \/ FetchAttempt \/ FetchBackoff

SpecJobs == InitJobs /\ [][NextJobs]_vars

(***************************************************************************)
(* The scheduler with jiji the only enabled scraper                        *)
(***************************************************************************)
InitScheduler ==
    /\ now = 1
    /\ channels = Channels
    /\ gigs = {}
    /\ notifications = <<>>
    /\ saves = [c \in SaveIds |-> IdleSave]
    /\ health = {}
    /\ perf = {}
    /\ runs = [r \in RunIds |-> IdleRun]
    /\ dbFault = "ok"
    /\ retry_attempts = 2
    /\ fetch = IdleFetch
    /\ robots_parsers \in FilledCaches
    /\ robots = IdleRobots
    /\ monitor = IdleMonitor
    /\ InitDispatches
    /\ enabled = {"jiji"}
    /\ scheduler = "running"
    /\ execs = [e \in ExecIds |-> IdleExec]
    /\ InitLeaf

NextScheduler ==
    \/ Fire \/ FireHealthCheck \/ HealthCheckRow \/ HealthCheckReturn
    \/ MainShutdown
    \/ JobBegin \/ JobRequest \/ JobResponse \/ JobSaved
    \/ FetchAttempt \/ FetchBackoff

SpecScheduler == InitScheduler /\ [][NextScheduler]_vars

(***************************************************************************)
(* The store alone                                                         *)
(***************************************************************************)
InitStore ==
    /\ now = 0
    /\ channels \in {{}, Channels}
    /\ gigs = {}
    /\ notifications = <<>>
    /\ saves = [c \in SaveIds |-> IdleSave]
    /\ health = {}
    /\ perf = {}
    /\ runs = [r \in RunIds |-> IdleRun]
    /\ dbFault = "ok"
    /\ retry_attempts = 1
    /\ fetch = IdleFetch
    /\ robots_parsers = [d \in Domains |-> AbsentEntry]
    /\ robots = IdleRobots
    /\ monitor = IdleMonitor
    /\ InitAux

SaveGigCall ==
    \E c \in SaveIds, p \in Pairs, content \in Contents :
        save_gig(c, p[1], p[2], content)
SaveGigExecutor == \E c \in SaveIds, fault \in BOOLEAN : save_gig_executor(c, fault)
SaveGigResume == \E c \in SaveIds : save_gig_resume(c)
SaveGigNotified == \E c \in SaveIds, raises \in BOOLEAN : save_gig_notified(c, raises)

NextStore == SaveGigCall \/ SaveGigExecutor \/ SaveGigResume \/ SaveGigNotified

SpecStore == InitStore /\ [][NextStore]_vars

(***************************************************************************)
(* Claims about the deduplicating store                                    *)
(***************************************************************************)
CallsFor(source, link) ==
    {c \in SaveIds : saves[c].pc # "idle" /\ saves[c].source = source
                                          /\ saves[c].link = link}
RowsFor(source, link) == {r \in gigs : r.source = source /\ r.link = link}
NotificationsFor(source, link) ==
    {i \in DOMAIN notifications : notifications[i].source = source
                                    /\ notifications[i].link = link}
Concurrent(c, d) == c # d /\ c \notin saves[d].after /\ d \notin saves[c].after

\* c returned (or raised) before d was called, both with the same pair,
\* no other call used the pair, and the database took c's insert.
SavedTwiceInSequence(c, d) ==
    /\ c # d /\ Finished(c) /\ Finished(d)
    /\ c \in saves[d].after
    /\ CallsFor(saves[c].source, saves[c].link) = {c, d}
    /\ saves[c].db_outcome # "error"

\* C1: after save_gig was called twice in sequence with one (source, link),
\* whatever the other fields, the gigs table holds exactly one row for the
\* pair and send_notification was called exactly once for it, with the
\* (source, title, link, snippet) of the first call.
C1_SaveTwiceOneRowOneNotification ==
    \A c, d \in SaveIds :
        SavedTwiceInSequence(c, d) =>
            /\ Cardinality(RowsFor(saves[c].source, saves[c].link)) = 1
            /\ \E i \in DOMAIN notifications :
                /\ NotificationsFor(saves[c].source, saves[c].link) = {i}
                /\ notifications[i] =
                       NotificationCall(saves[c].source, saves[c].title,
                                        saves[c].link, saves[c].snippet)

C1_Witness ==
    \E c, d \in SaveIds :
        /\ SavedTwiceInSequence(c, d)
        /\ saves[c].title # saves[d].title
        /\ saves[c].snippet # saves[d].snippet

\* Every call for the pair has ended, two of them overlapped, and no insert
\* met a database failure.
SavedConcurrently(source, link) ==
    LET cs == CallsFor(source, link) IN
    /\ \A c \in cs : Finished(c) /\ saves[c].db_outcome # "error"
    /\ \E c, d \in cs : Concurrent(c, d)

\* C9: when two or more save_gig calls for one (source, link) run
\* concurrently, in any interleaving, exactly one insert succeeds, exactly
\* one row for the pair exists afterwards and exactly one notification is
\* dispatched for it.
C9_ConcurrentSavesOneInsert ==
    \A source \in Sources, link \in Links :
        SavedConcurrently(source, link) =>
            /\ Cardinality({c \in CallsFor(source, link) :
                               db_success(saves[c].db_outcome)}) = 1
            /\ Cardinality(RowsFor(source, link)) = 1
            /\ Cardinality(NotificationsFor(source, link)) = 1

\* Two calls for one pair were both waiting for the executor, and ended.
C9_Witness ==
    \E c, d \in SaveIds :
        /\ Concurrent(c, d)
        /\ saves[c].source = saves[d].source /\ saves[c].link = saves[d].link
        /\ SavedConcurrently(saves[c].source, saves[c].link)
        /\ saves[c].title # saves[d].title

\* The call inserted its row and its dispatch has been started.
Dispatched(c) ==
    /\ saves[c].pc \in {"notifying", "returned", "raised"}
    /\ saves[c].db_outcome = "inserted"

C14_RowStaysOnce ==
    \A c \in SaveIds :
        Dispatched(c) =>
            \E row \in gigs :
                /\ RowsFor(saves[c].source, saves[c].link) = {row}
                /\ row.title = saves[c].title
                /\ row.snippet = saves[c].snippet
                /\ row.timestamp = saves[c].timestamp

\* C14: whatever the outcome of the dispatch that follows a new insert, the
\* row inserted by that save_gig call remains stored exactly once, and the
\* call neither goes back to the insert nor changes the table when the
\* dispatch ends.
C14_DispatchLeavesCommit ==
    /\ []C14_RowStaysOnce
    /\ [][\A c \in SaveIds : saves[c].pc = "notifying" =>
            /\ saves'[c].pc \in {"notifying", "returned", "raised"}
            /\ saves'[c].db_outcome = saves[c].db_outcome
            /\ saves'[c].pc # "notifying" => gigs' = gigs
          ]_vars

\* The dispatch of a call's notification raised, and a later call for the
\* same pair was then turned away as a duplicate.
C14_Witness ==
    \E c, d \in SaveIds :
        /\ Dispatched(c) /\ saves[c].pc = "raised"
        /\ Finished(d) /\ c \in saves[d].after
        /\ saves[d].source = saves[c].source /\ saves[d].link = saves[c].link
        /\ saves[d].db_outcome = "duplicate"

(***************************************************************************)
(* Claims about the lifecycle wrapper                                      *)
(***************************************************************************)
RunRecords(r) == {row \in perf : row.run = r}
Fired == {r \in RunIds : runs[r].pc # "idle"}
Done(r) == runs[r].pc = "done"
RaisedException(r) ==
    Done(r) /\ runs[r].outcome.kind = "raise" /\ runs[r].outcome.exc = "Exception"
ReturnedValue(r) == Done(r) /\ runs[r].outcome.kind = "return"

\* The two forms of the skip sentinel.
SkipSentinels ==
    {<<"ScraperStatus", "skipped_robots">>, <<"str", "skipped_robots">>}

\* The performance ledger takes the write of this process.
LedgerWritable == PerfFault(dbFault) = "ok"

\* C2: an exception raised inside the job body never escapes the wrapper
\* (the wrapper returns normally), and the execution yields exactly one
\* RunRecord, with status "failed" and a non-null error message.
C2_ExceptionContained ==
    \A r \in RunIds :
        RaisedException(r) =>
            /\ runs[r].exit = "returned"
            /\ LedgerWritable =>
                \E row \in perf :
                    /\ RunRecords(r) = {row}
                    /\ row.scraper_name = runs[r].job
                    /\ row.status = "failed"
                    /\ row.error_message # NULL

\* A body raised an exception whose str() is empty, after another run ended.
C2_Witness ==
    \E r \in RunIds :
        /\ RaisedException(r) /\ LedgerWritable
        /\ runs[r].outcome.msg = ""
        /\ \E q \in RunIds : q # r /\ Done(q)

\* Job A (run a) raised, job B (run b) succeeded, each fired once, with a
\* working database.
FailedAndSucceeded(a, b) ==
    /\ runs[a].job # runs[b].job
    /\ Fired = {a, b}
    /\ RaisedException(a)
    /\ ReturnedValue(b) /\ runs[b].outcome.value \notin SkipSentinels
    /\ dbFault = "ok"
    /\ retry_attempts = 1
    /\ fetch = IdleFetch
    /\ robots_parsers = [d \in Domains |-> AbsentEntry]
    /\ robots = IdleRobots
    /\ monitor = IdleMonitor
    /\ InitAux

\* C3: of two jobs each fired once, A's body raising and B's succeeding, in
\* every interleaving exactly two RunRecords are written, "failed" for A and
\* "success" for B; B's HealthRecord is updated and A's is not; and while
\* B is running after A's failure, B can still run to completion.
C3_FailureIsolation ==
    \A a, b \in RunIds :
        /\ FailedAndSucceeded(a, b) =>
            /\ Cardinality(perf) = 2
            /\ \E ra, rb \in perf :
                /\ RunRecords(a) = {ra} /\ RunRecords(b) = {rb}
                /\ ra.scraper_name = runs[a].job /\ ra.status = "failed"
                /\ rb.scraper_name = runs[b].job /\ rb.status = "success"
            /\ \E h \in health :
                /\ h.scraper_name = runs[b].job
                /\ h.last_run >= runs[b].start_time
            /\ \A h \in health :
                h.scraper_name = runs[a].job => h.last_run < runs[a].start_time
        /\ (RaisedException(a) /\ runs[b].pc = "running") =>
                ENABLED wrapper_exit(b, [kind |-> "return",
                    value |-> <<"NoneType", NULL>>, exc |-> NULL, msg |-> NULL])

\* A failed while B was running, B then succeeded; A had an older HealthRecord.
C3_Witness ==
    \E a, b \in RunIds :
        /\ FailedAndSucceeded(a, b)
        /\ \E ra \in RunRecords(a), rb \in RunRecords(b) :
                runs[b].start_time <= ra.timestamp /\ ra.timestamp < rb.timestamp
        /\ \E h \in health : h.scraper_name = runs[a].job

\* The step in which execution r ends with a skip sentinel returned.
SkipStep(r) ==
    /\ runs[r].pc = "running" /\ runs'[r].pc = "done"
    /\ runs'[r].outcome.kind = "return"
    /\ runs'[r].outcome.value \in SkipSentinels

C10_SkipRecorded ==
    \A r \in RunIds :
        (ReturnedValue(r) /\ runs[r].outcome.value \in SkipSentinels) =>
            /\ runs[r].status = "skipped_robots"
            /\ runs[r].exit = "returned"
            /\ LedgerWritable =>
                \E row \in perf :
                    /\ RunRecords(r) = {row}
                    /\ row.scraper_name = runs[r].job
                    /\ row.status = "skipped_robots"
                    /\ row.error_message = NULL

\* C10: when the body returns the skip sentinel (ScraperStatus.SKIPPED_ROBOTS
\* or the string "skipped_robots"), the run ends skipped: exactly one
\* RunRecord, with status "skipped_robots" and no error text, is written,
\* and the step leaves the health ledger as it was.
C10_SkipNotHealthy ==
    /\ []C10_SkipRecorded
    /\ [][\A r \in RunIds : SkipStep(r) => health' = health]_vars

\* A run that returned the plain string ended, for a job with no HealthRecord.
C10_Witness ==
    \E r \in RunIds :
        /\ ReturnedValue(r) /\ runs[r].outcome.value = <<"str", "skipped_robots">>
        /\ LedgerWritable
        /\ RunRecords(r) # {}
        /\ ~ \E h \in health : h.scraper_name = runs[r].job

\* The step in which execution r ends with a non-skip value returned.
SuccessStep(r) ==
    /\ runs[r].pc = "running" /\ runs'[r].pc = "done"
    /\ runs'[r].outcome.kind = "return"
    /\ runs'[r].outcome.value \notin SkipSentinels

C11_SuccessRecorded ==
    \A r \in RunIds :
        (ReturnedValue(r) /\ runs[r].outcome.value \notin SkipSentinels
                          /\ dbFault = "ok") =>
            /\ runs[r].status = "success"
            /\ runs[r].exit = "returned"
            /\ \E row \in perf :
                    /\ RunRecords(r) = {row}
                    /\ row.scraper_name = runs[r].job
                    /\ row.status = "success"
                    /\ row.error_message = NULL

\* C11: when the body returns normally with a non-skip result, the run ends
\* in SUCCESS: exactly one RunRecord, with status "success" and null error
\* text, is written for the job, and the step upserts the job's
\* HealthRecord once: afterwards the health ledger holds exactly one row of
\* the job, stamped by this run, and the other jobs' rows as they were.
C11_SuccessUpsertsHealth ==
    /\ []C11_SuccessRecorded
    /\ [][\A r \in RunIds : (SuccessStep(r) /\ dbFault = "ok") =>
            /\ \E h \in health' :
                    /\ h.scraper_name = runs[r].job
                    /\ h.last_run = now
                    /\ health' \ {h} = {g \in health : g.scraper_name # runs[r].job}
          ]_vars

\* A run that returned a status value other than the skip sentinel ended and
\* replaced the job's older HealthRecord.
C11_Witness ==
    \E r \in RunIds :
        /\ ReturnedValue(r) /\ dbFault = "ok"
        /\ runs[r].outcome.value = <<"ScraperStatus", "circuit_open">>
        /\ RunRecords(r) # {}
        /\ \E h \in health : h.scraper_name = runs[r].job /\ h.last_run > 0
        /\ \E h \in health : h.scraper_name # runs[r].job

(***************************************************************************)
(* Claims about the resilient fetcher and the robots.txt cache             *)
(***************************************************************************)
\* The answers given for URLs of the domain.
CallsOf(domain) == {i \in DOMAIN robots.calls : robots.calls[i].domain = domain}

\* C4: for a domain whose robots.txt fetch fails, is_url_allowed returns
\* true on that call and on every later call for any URL of the domain, and
\* fetch_url_with_retries is called at most once for its robots.txt.
C4_FailOpenSingleFetch ==
    \A d \in robots.failed :
        /\ robots.fetches[d] <= 1
        /\ robots_parsers[d] = NoneEntry
        /\ \A i \in CallsOf(d) : robots.calls[i].allowed

\* A failed domain was asked again, for another path, while the other
\* domain's parsed robots.txt refused a URL.
C4_Witness ==
    \E d \in robots.failed :
        /\ \E i, j \in CallsOf(d) :
                i < j /\ robots.calls[i].path # robots.calls[j].path
        /\ \E k \in DOMAIN robots.calls : ~robots.calls[k].allowed

\* C5: with retry_attempts = 3, a call whose attempts give 503, 503, 200
\* returns the 200 response, after exactly 2 retries (3 attempts).
C5_RetriesThenSucceeds ==
    retry_attempts = 3 =>
        /\ fetch.history = <<Response(503)>> => fetch.pc \in {"wait", "attempt"}
        /\ fetch.history = <<Response(503), Response(503)>> =>
                fetch.pc \in {"wait", "attempt"}
        /\ fetch.history = <<Response(503), Response(503), Response(200)>> =>
                /\ fetch.pc = "returned"
                /\ Len(fetch.waits) = 2

C5_Witness ==
    /\ retry_attempts = 3
    /\ fetch.history = <<Response(503), Response(503), Response(200)>>
    /\ fetch.pc = "returned"

\* The statuses the function's own branch calls non-retryable.
NonRetryable(o) ==
    /\ o.kind = "response"
    /\ o.status \in 400..599
    /\ o.status \notin RetryableStatuses

\* C6: for every retry_attempts, a fetch whose first attempt returns a
\* non-retryable status (e.g. 404) raises at once: one attempt, no retry.
C6_NonRetryableRaisesAtOnce ==
    (fetch.history # <<>> /\ NonRetryable(fetch.history[1])) =>
        /\ fetch.pc = "raised"
        /\ Len(fetch.history) = 1
        /\ fetch.waits = <<>>

(***************************************************************************)
(* Claims about the health monitor                                         *)
(***************************************************************************)
CheckEnded == monitor.pc \in {"done", "raised"}

\* The alerts of the invocation that name the job.
AlertsFor(scraper_name) ==
    Cardinality({i \in DOMAIN monitor.alerted : monitor.alerted[i] = scraper_name})

\* C7: in every invocation of check_scraper_health(threshold), a job with a
\* HealthRecord gets exactly one alert if now minus its last success
\* exceeds the threshold, and none if it is within the threshold.
C7_StaleAlertedOnceHealthyNever ==
    CheckEnded =>
        \A row \in monitor.rows :
            AlertsFor(row.scraper_name) =
                IF monitor.current_time_utc - row.last_run > monitor.threshold
                THEN 1 ELSE 0

\* C8: in every invocation of check_scraper_health, an enabled job with no
\* HealthRecord at all gets exactly one alert.
C8_NeverRunAlertedOnce ==
    CheckEnded =>
        \A j \in EnabledJobs :
            (~ \E row \in monitor.rows : row.scraper_name = j) => AlertsFor(j) = 1

(***************************************************************************)
(* Claims about the notification dispatcher                                *)
(***************************************************************************)
\* C12: every failure raised inside a channel is caught inside that channel
\* and send_notification returns normally: no call of send_notification
\* ends with an exception handed to its caller.
C12_ChannelFailuresContained ==
    \A d \in DispatchIds : dispatches[d].pc # "raised"

\* C13: with both channels enabled, when one channel's dispatch has failed
\* the sibling's task was started and is never cancelled or skipped: it has
\* ended by itself or can still take its next step, whichever ended first.
C13_SiblingRunsToCompletion ==
    \A d \in DispatchIds : \A ch, sib \in Channels :
        (channels = Channels /\ ch # sib
            /\ dispatches[d].tasks[ch] \in {"caught", "raised"}) =>
            /\ dispatches[d].tasks[sib] \notin {"none", "cancelled"}
            /\ dispatches[d].tasks[sib] = "created" =>
                    ENABLED send_channel_notification_start(d, sib, "sending")
            /\ dispatches[d].tasks[sib] = "sending" =>
                    ENABLED send_channel_notification_finish(d, sib, "sent")

\* The email task raised, send_notification was left with the exception,
\* and the Telegram task sent its message afterwards.
C13_Witness ==
    \E d \in DispatchIds :
        /\ channels = Channels
        /\ dispatches[d].pc = "raised"
        /\ dispatches[d].tasks["email"] = "raised"
        /\ dispatches[d].tasks["telegram"] = "sent"
        /\ "telegram" \in dispatches[d].late

(***************************************************************************)
(* Claims about the scheduler and the scraper jobs                         *)
(***************************************************************************)
\* The next execution the scheduler would start.
NextExec(f) ==
    /\ execs[f].pc = "idle"
    /\ \A d \in ExecIds : d < f => execs[d].pc # "idle"

\* C15: while a job execution is blocked inside a network fetch or a retry
\* backoff wait, the scheduler can still fire the trigger of another job
\* and of the health check.
C15_BlockedJobLeavesSchedulerFree ==
    \A e \in ExecIds :
        (execs[e].pc = "fetching" /\ fetch.pc \in {"attempt", "wait"}
            /\ scheduler = "running") =>
            /\ \A f \in ExecIds : NextExec(f) =>
                    \E job \in RegisteredJobs(enabled) \ {execs[e].job} :
                        ENABLED fire(f, job)
            /\ (monitor.pc # "loop" /\ monitor.n < MaxChecks) =>
                    ENABLED FireHealthCheck

\* C16: once scheduler.shutdown() has run, the scheduler stays stopped and
\* no step starts an execution of a scraper job or of the health check.
C16_NoTriggerAfterStop ==
    [][scheduler = "stopped" =>
            /\ scheduler' = "stopped"
            /\ \A e \in ExecIds : execs[e].pc = "idle" => execs'[e].pc = "idle"
            /\ monitor'.n = monitor.n
      ]_vars

\* After the stop a job in flight went on to its page request, with
\* executions and health checks left to fire.
C16_Witness ==
    /\ scheduler = "stopped"
    /\ \E e \in ExecIds : execs[e].pc = "fetching"
    /\ \E f \in ExecIds : execs[f].pc = "idle"
    /\ monitor.n < MaxChecks

\* The RunRecords execution e of a scheduled function wrote.
ExecRecords(e) == {row \in perf : row.run = e}

\* C17: every execution of a registered job, whatever its outcome, writes
\* exactly one RunRecord, carrying that job's name.
C17_OneRunRecordPerExecution ==
    \A e \in ExecIds :
        execs[e].pc = "done" =>
            \E row \in perf :
                /\ ExecRecords(e) = {row}
                /\ row.scraper_name = JobName(execs[e].job)

\* C18: a job whose target URL robots.txt disallows requests no page from
\* that target, and saves no record in that run.
C18_DisallowedTargetNotRequested ==
    \A e \in ExecIds :
        LET targets == JobTargets(execs[e].job) IN
        \A i \in DOMAIN targets :
            ~is_url_allowed_cached(targets[i]) =>
                /\ targets[i] \notin execs[e].requested
                /\ Len(targets) = 1 => execs[e].saved = 0

\* C19: a run skipped because robots.txt disallows the job's target is
\* recorded with exactly one RunRecord of status "skipped_robots", and does
\* not update the job's HealthRecord.
C19_RobotsSkipRecorded ==
    \A e \in ExecIds :
        execs[e].pc = "done" =>
            \A name \in execs[e].blocked :
                /\ name \notin execs[e].health_written
                /\ \E row \in perf :
                    /\ {r \in ExecRecords(e) : r.scraper_name = name} = {row}
                    /\ row.status = "skipped_robots"

\* C20: an execution whose RunRecord has status "failed" has not written
\* the HealthRecord of that name.
C20_FailedRunLeavesHealth ==
    \A e \in ExecIds : \A row \in ExecRecords(e) :
        row.status = "failed" => row.scraper_name \notin execs[e].health_written

\* The entry point of a scraper module: the function named after it.
EntryPoint(module) ==
    CASE module = "jiji" -> "scrape_jiji"
      [] module = "classifiedads" -> "scrape_classifiedads"
      [] module = "reddit" -> "scrape_reddit"
      [] OTHER -> "scrape_telegram"

\* C21: the scheduled scraper jobs are exactly the entry points of the enabled
\* modules, one per module, so there are as many jobs as enabled modules.
C21_OneJobPerEnabledModule ==
    /\ RegisteredJobs(enabled) = {EntryPoint(module) : module \in enabled}
    /\ Cardinality(RegisteredJobs(enabled)) = Cardinality(enabled)

(***************************************************************************)
(* Further claims about the deduplicating store                            *)
(***************************************************************************)
\* Every call made has ended and none met a database failure.
SavesEndedWithoutFault ==
    \A c \in SaveIds :
        saves[c].pc # "idle" => Finished(c) /\ saves[c].db_outcome # "error"

PairsSaved == {<<saves[c].source, saves[c].link>> : c \in {d \in SaveIds : saves[d].pc # "idle"}}

\* C22: rows are deduplicated on (source, link), not on the link: once a
\* sequence of save_gig calls has ended without a database failure, the
\* number of rows and the number of notifications dispatched both equal the
\* number of distinct (source, link) pairs saved, each pair having one row
\* and one notification.
C22_OneRowAndNotificationPerPair ==
    SavesEndedWithoutFault =>
        /\ Cardinality(gigs) = Cardinality(PairsSaved)
        /\ Len(notifications) = Cardinality(PairsSaved)
        /\ \A p \in PairsSaved :
            /\ Cardinality(RowsFor(p[1], p[2])) = 1
            /\ Cardinality(NotificationsFor(p[1], p[2])) = 1

\* One link was saved under two sources.
C22_Witness ==
    /\ SavesEndedWithoutFault
    /\ \E c, d \in SaveIds :
        /\ Finished(c) /\ Finished(d)
        /\ saves[c].link = saves[d].link
        /\ saves[c].source # saves[d].source
        /\ Cardinality(gigs) = 2 /\ Len(notifications) = 2

(***************************************************************************)
(* The fetcher with its thread scheduled: an attempt ends (the request has *)
(* a timeout) and a backoff sleep ends.                                    *)
(***************************************************************************)
SpecFetchLive == SpecFetch /\ WF_vars(FetchAttempt) /\ WF_vars(FetchBackoff)

\* The outcomes the function retries: a network timeout or connection
\* failure, or one of the retryable statuses.
Retryable(o) ==
    \/ o.kind \in {"Timeout", "ConnectionError"}
    \/ o.kind = "response" /\ o.status \in RetryableStatuses

AllRetryable(history) == \A i \in DOMAIN history : Retryable(history[i])

C23_AttemptsBounded ==
    /\ Len(fetch.history) <= retry_attempts
    /\ AllRetryable(fetch.history) =>
        /\ Len(fetch.history) < retry_attempts => ~FetchEnded
        /\ (fetch.history # <<>> /\ Len(fetch.history) = retry_attempts) =>
            /\ fetch.pc = "raised"
            /\ fetch.exc = AttemptRaises(fetch.history[Len(fetch.history)])

\* C23: with retry_attempts = N, a call whose every attempt fails retryably
\* makes exactly N attempts and then raises the last error; no call makes
\* more than N attempts, and every call ends.
C23_ExactlyNAttemptsThenRaises ==
    /\ []C23_AttemptsBounded
    /\ (fetch.pc = "attempt") ~> FetchEnded

\* A call with three attempts allowed failed three times, not always the
\* same way, and raised.
C23_Witness ==
    /\ retry_attempts = 3
    /\ Len(fetch.history) = 3
    /\ AllRetryable(fetch.history)
    /\ fetch.history[1] # fetch.history[3]
    /\ fetch.pc = "raised"

\* C24: for every domain, over any sequence of is_url_allowed calls of the
\* process, robots.txt is fetched at most once, and the domain's cache entry,
\* once written (a parser or None), is never overwritten or removed.
C24_OneFetchEntryKept ==
    /\ [](\A d \in Domains : robots.fetches[d] <= 1)
    /\ [][\A d \in Domains :
            robots_parsers[d] # AbsentEntry => robots_parsers'[d] = robots_parsers[d]
         ]_vars

\* Both domains were fetched, one kept a parser and the other None, and a
\* domain was asked again after its entry was written.
C24_Witness ==
    /\ \A d \in Domains : robots.fetches[d] = 1 /\ robots_parsers[d] # AbsentEntry
    /\ \E d, e \in Domains :
        /\ robots_parsers[d].kind = "parser" /\ robots_parsers[e] = NoneEntry
        /\ Cardinality(CallsOf(d)) >= 2

\* The insert of the call was refused: the pair exists, or the database
\* failed otherwise.
Refused(c) == saves[c].db_outcome \in {"duplicate", "error"}

C25_RefusedCallReturns ==
    \A c \in SaveIds : Refused(c) => saves[c].pc \in {"resume", "returned"}

C26_TasksOfEnabledChannels ==
    \A d \in DispatchIds :
        dispatches[d].pc # "idle" =>
            /\ \A ch \in Channels : ch \in channels <=> dispatches[d].tasks[ch] # "none"
            /\ channels = {} =>
                /\ dispatches[d].pc = "returned"
                /\ dispatches[d].late = {}

\* C26: with no channel enabled send_notification creates no channel task
\* and returns at once; with a channel enabled the call creates one task
\* for it, which runs once: a task that ended is not started again.
C26_NoChannelNoOp ==
    /\ []C26_TasksOfEnabledChannels
    /\ [][\A d \in DispatchIds, ch \in Channels :
            /\ dispatches[d].tasks[ch] \in TaskEnded =>
                    dispatches'[d].tasks[ch] = dispatches[d].tasks[ch]
            /\ (dispatches[d].pc # "idle" /\ dispatches[d].tasks[ch] = "none") =>
                    dispatches'[d].tasks[ch] = "none"
         ]_vars

\* Two calls were made with no channel enabled.
C26_Witness ==
    /\ channels = {}
    /\ \A d \in DispatchIds : dispatches[d].pc = "returned"
    /\ Len(notifications) = MaxDispatches

(***************************************************************************)
(* Further claims about the lifecycle wrapper                              *)
(***************************************************************************)
\* C27: when a blocking (non-coroutine) body wrapped by scraper_lifecycle
\* returns normally with a non-skip result, the run is recorded with status
\* "success" and the job's HealthRecord is upserted, as for a coroutine.
C27_BlockingBodySameOutcome ==
    \A r \in RunIds :
        (ReturnedValue(r) /\ runs[r].body = "blocking"
                          /\ runs[r].outcome.value \notin SkipSentinels
                          /\ dbFault = "ok") =>
            /\ runs[r].status = "success"
            /\ \E row \in RunRecords(r) : row.status = "success"
            /\ \E h \in health : h.scraper_name = runs[r].job /\ h.last_run > 0

(***************************************************************************)
(* Claims about the throttler and the identity rotation                    *)
(***************************************************************************)
C28_DelayWithinRange ==
    throttle.mode # "idle" =>
        /\ delay_range[1] * Resolution <= throttle.delay
        /\ throttle.delay <= delay_range[2] * Resolution

\* C28: every call of the throttler, blocking or not, suspends its caller
\* for a duration between the min and the max of delay_range, and the two
\* modes draw from the same set of durations.
C28_BothModesWithinRange ==
    /\ C28_DelayWithinRange
    /\ BlockingDelays(delay_range[1], delay_range[2])
            = AsyncDelays(delay_range[1], delay_range[2])

\* The non-blocking mode drew the longest duration of a range that does not
\* start at zero.
C28_Witness ==
    /\ throttle.mode = "async"
    /\ 0 < delay_range[1] /\ delay_range[1] < delay_range[2]
    /\ throttle.delay = delay_range[2] * Resolution

\* C29: get_proxy returns None exactly when use_proxies is off or the
\* proxy_list is empty; otherwise it returns an entry of the proxy_list.
C29_ProxyFromPoolOrNone ==
    proxy.pc = "returned" =>
        /\ proxy.result = NoProxy <=> (~use_proxies \/ proxy_list = <<>>)
        /\ proxy.result # NoProxy =>
                \E i \in DOMAIN proxy_list : proxy.result = ProxyDict(proxy_list[i])

\* With a one-entry list, the entry was returned; the pool's other entry is
\* not configured.
C29_Witness ==
    /\ proxy.pc = "returned"
    /\ use_proxies /\ Len(proxy_list) = 1
    /\ proxy.result = ProxyDict(proxy_list[1])

(***************************************************************************)
(* Claims about overlapping executions                                     *)
(***************************************************************************)
InFlight(e) == execs[e].pc \notin {"idle", "done"}

\* C30 as stated: there is no overlap guard; whenever a trigger of a job can
\* fire (the scheduler runs, the event loop is free) while an execution of
\* that job is in flight, a new execution of the same job is started.
C30_NoOverlapGuard ==
    \A e, f \in ExecIds :
        (InFlight(e) /\ NextExec(f) /\ scheduler = "running" /\ LoopFree) =>
            ENABLED fire(f, execs[e].job)

\* C30 as amended: a trigger that falls due while an execution of the same
\* job is in flight is skipped, so at most one execution of a job is in
\* flight at any time; the job is started again only after that execution
\* has ended.
C30_OneInstancePerJob ==
    /\ \A e, f \in ExecIds :
        (e # f /\ InFlight(e) /\ InFlight(f)) => execs[e].job # execs[f].job
    /\ \A e, f \in ExecIds :
        (InFlight(e) /\ NextExec(f)) => ~ ENABLED fire(f, execs[e].job)

\* The job ran, ended, and was started again by a later trigger.
C30_Witness ==
    \E e, f \in ExecIds :
        /\ e # f /\ execs[e].job = execs[f].job
        /\ execs[e].pc = "done" /\ InFlight(f)
        /\ scheduler = "running"

(***************************************************************************)
(* Claims about the order of commit and dispatch                           *)
(***************************************************************************)
\* C31: every notification dispatched for an opportunity has a committed
\* row with its (source, link), there are as many dispatches as calls whose
\* insert succeeded, and a call whose insert did not succeed has dispatched
\* nothing.
C31_DispatchOnlyAfterCommit ==
    /\ \A i \in DOMAIN notifications :
            RowsFor(notifications[i].source, notifications[i].link) # {}
    /\ Len(notifications) = Cardinality({c \in SaveIds : Dispatched(c)})
    /\ \A c \in SaveIds :
            (saves[c].pc # "idle" /\ CallsFor(saves[c].source, saves[c].link) = {c}
                /\ ~db_success(saves[c].db_outcome)) =>
                    NotificationsFor(saves[c].source, saves[c].link) = {}

\* One call's insert failed and it returned; another call inserted its row
\* and its notification was dispatched.
C31_Witness ==
    \E c, d \in SaveIds :
        /\ saves[c].db_outcome = "error" /\ saves[c].pc = "returned"
        /\ Dispatched(d) /\ Finished(d)
        /\ Len(notifications) = 1

C33_OneHealthRowLatestSuccess ==
    /\ \A g, h \in health : g.scraper_name = h.scraper_name => g = h
    /\ \A h \in health :
        \E e \in ExecIds :
            /\ h.scraper_name \in execs[e].health_written
            /\ \/ InFlight(e)
               \/ \E row \in ExecRecords(e) :
                        /\ row.scraper_name = h.scraper_name
                        /\ row.status = "success"
                        /\ row.timestamp >= h.last_run
            /\ \A row \in perf :
                    (row.scraper_name = h.scraper_name /\ row.status = "success")
                        => row.run <= e

\* C34: a row of the gigs table is immutable: a later save_gig call for its
\* (source, link) leaves every field of it as stored, whatever the call
\* carries, and no step updates or deletes a row.
C34_RowsImmutable ==
    [][\A row \in gigs :
            /\ row \in gigs'
            /\ \A other \in gigs' :
                    (other.source = row.source /\ other.link = row.link) => other = row
      ]_vars

\* A later call for a stored pair carried another title, snippet and
\* timestamp, and returned; the row is the first call's.
C34_Witness ==
    \E c, d \in SaveIds :
        /\ SavedTwiceInSequence(c, d)
        /\ saves[d].db_outcome = "duplicate"
        /\ saves[c].title # saves[d].title
        /\ saves[c].timestamp # saves[d].timestamp
        /\ \E row \in gigs : row.title = saves[c].title /\ row.timestamp = saves[c].timestamp

(***************************************************************************)
(* Further claims about the health monitor                                 *)
(***************************************************************************)
\* The step is one of check_scraper_health.
MonitorStep == monitor' # monitor

\* C35: every alert of check_scraper_health is handed to the dispatcher
\* under the source label "Health Check", which no scraper uses for an
\* opportunity, and no step of check_scraper_health inserts, changes or
\* deletes a row of the gigs table or of the health ledger.
C35_AlertsBypassStore ==
    /\ [](\A i \in DOMAIN notifications :
            /\ notifications[i].source = "Health Check"
            /\ notifications[i].source \notin ScraperSourceLabels)
    /\ [][MonitorStep =>
            /\ gigs' = gigs
            /\ health' = health
            /\ Len(notifications') <= Len(notifications) + 1
         ]_vars

\* An invocation alerted for a stale row and ended with the ledger as it
\* found it.
C35_Witness ==
    /\ monitor.pc = "done"
    /\ Len(monitor.alerted) >= 1
    /\ Len(notifications) >= 1
    /\ health = monitor.rows /\ health # {}

(***************************************************************************)
(* Further claims about the fetcher                                        *)
(***************************************************************************)
\* C36: within one fetch call the wait before each retry is never below
\* the configured minimum nor above the configured maximum, and the waits
\* of the call never decrease from one retry to the next.
C36_WaitsBoundedNonDecreasing ==
    /\ \A i \in DOMAIN fetch.waits :
          /\ fetch.waits[i] >= WaitMin
          /\ fetch.waits[i] <= WaitMax
    /\ \A i, j \in DOMAIN fetch.waits : i <= j => fetch.waits[i] <= fetch.waits[j]

\* A call that waited at the minimum, then longer, then at the maximum.
C36_Witness ==
    /\ Len(fetch.waits) >= 3
    /\ fetch.waits[1] = WaitMin
    /\ fetch.waits[Len(fetch.waits)] = WaitMax
    /\ \E i \in DOMAIN fetch.waits :
          fetch.waits[i] > WaitMin /\ fetch.waits[i] < WaitMax

(***************************************************************************)
(* Further claims about the lifecycle wrapper                              *)
(***************************************************************************)
\* C37: a RunRecord with status "success" is written only for an execution
\* whose body returned normally; an execution that a cancellation or another
\* interruption that is no Exception ended is never recorded as "success".
C37_SuccessOnlyForReturnedBody ==
    \A row \in perf :
        row.status = ScraperStatus.SUCCESS =>
            /\ runs[row.run].outcome.kind = "return"
            /\ runs[row.run].exit = "returned"


\* The RunRecord write of execution r failed.
RunRecordWriteFailed(r) ==
    /\ runs[r].pc = "done"
    /\ PerfFault(dbFault) # "ok"

\* C40: a failure while the RunRecord is written never leaves the wrapper:
\* the execution writes no RunRecord, the wrapper ends as it would have ended
\* with the record written (it returns, unless an interruption that is no
\* Exception ended the body), and the HealthRecord the run wrote is kept.
C40_RunRecordFailureContained ==
    \A r \in RunIds :
        RunRecordWriteFailed(r) =>
            /\ \A row \in perf : row.run # r
            /\ WrapperCatches(runs[r].outcome.exc) \/ runs[r].outcome.kind = "return"
                  => runs[r].exit = "returned"
            /\ runs[r].status = ScraperStatus.SUCCESS /\ runs[r].outcome.kind = "return"
                  => \E h \in health : /\ h.scraper_name = runs[r].job
                                       /\ h.last_run >= runs[r].start_time

\* sqlite3.connect failed in log_scraper_performance after a run that
\* succeeded: the wrapper returned and the HealthRecord is there.
C40_Witness ==
    /\ dbFault = "perf_connect"
    /\ \E r \in RunIds :
          /\ RunRecordWriteFailed(r)
          /\ runs[r].status = ScraperStatus.SUCCESS
          /\ runs[r].exit = "returned"
          /\ \E h \in health : h.scraper_name = runs[r].job
    /\ perf = {}


\* C38: every alert check_scraper_health emits names a job that is enabled
\* and scheduled in this process; a HealthRecord under another name never
\* produces an alert.
C38_AlertsOnlyForScheduledJobs ==
    \A i \in DOMAIN monitor.alerted : monitor.alerted[i] \in EnabledJobs


\* The scheduler goes on firing the health check after the MaxChecks
\* invocations that are counted: a later invocation is not counted, and the
\* record of the dispatcher's calls starts afresh with it.
check_scraper_health_again(threshold_minutes) ==
    /\ monitor.pc \in {"done", "raised"}
    /\ monitor.n = MaxChecks
    /\ monitor' = [pc |-> "loop", n |-> monitor.n,
                   threshold |-> threshold_minutes, current_time_utc |-> now,
                   rows |-> health, todo |-> health, alerted |-> <<>>]
    /\ notifications' = <<>>
    /\ UNCHANGED <<now, channels, gigs, saves, ledgerVars, retry_attempts,
                   fetch, robots_parsers, robots, auxVars>>

CheckScraperHealthAgain == check_scraper_health_again(Threshold)

NextHealthLive == NextHealth \/ CheckScraperHealthAgain

\* The health check fires on its interval for ever and, once begun, runs on;
\* the clock moves.
SpecHealthLive ==
    /\ InitHealth /\ [][NextHealthLive]_vars
    /\ WF_vars(CheckScraperHealth)
    /\ WF_vars(CheckScraperHealthAgain)
    /\ WF_vars(CheckScraperHealthRow)
    /\ WF_vars(CheckScraperHealthReturn)
    /\ WF_vars(Clock)

\* The rows the ended invocation found older than its threshold.
StaleRowsOfCheck ==
    {row \in monitor.rows :
        RowVerdict(row, monitor.current_time_utc, monitor.threshold) = "stale"}

\* C39: no execution succeeds any more, so the ledger stays as it is; from
\* some health check on, every health check that has ended has emitted an
\* alert for every job whose HealthRecord it found older than the threshold.
C39_DeadJobAlertedAtEveryCheck ==
    <>[](CheckEnded =>
            \A row \in StaleRowsOfCheck : AlertsFor(row.scraper_name) >= 1)

====
